---- MODULE Spec2Model ----
(***************************************************************************)
(* A model of the LibBook seat-reservation front end: the hybrid store     *)
(* (services/storage: a remote API with a sticky fall-back to              *)
(* localStorage), the student booking flow (StudentDashboard), the seat    *)
(* layout editor (AdminDashboard) and the access controller (Auth).        *)
(*                                                                         *)
(* Every browser tab is one process: it has its own isOfflineMode flag and *)
(* its own React state, and at most one handler in flight.  The tabs share *)
(* one localStorage.  An async function is cut where another process can   *)
(* observe or change what it uses: when its fetch is in flight, and        *)
(* between the read of a localStorage blob and the write that follows it.  *)
(*                                                                         *)
(* Encodings.  A string built by the program is the sequence of what it is *)
(* built from: an id `bk-${Date.now()}` is <<"bk-", n>>, a literal id      *)
(* 's-l1' is <<"s-l1">>, a label is the sequence of its UTF-16 code units, *)
(* a text a person types or that is matched against one (a name, an email, *)
(* a password) is the sequence of its characters.                          *)
(* A calendar day 'yyyy-MM-dd' is its day number and a time 'HH:00' its    *)
(* hour; both formats are one-to-one on the values used.  null is << >>    *)
(* and a present value v is <<v>>.                                         *)
(***************************************************************************)
EXTENDS Integers, Sequences, FiniteSets, TLC

\* ------------------------------------------------------------------ bounds

\* Date.now() runs from 0 to MaxClock (milliseconds, abstractly); it may or may
\* not have advanced when a handler reads it.
MaxClock == 1
\* Bookings created (persisted or in flight) in one run.
MaxBookings == 2
\* Users in the store, those being registered included.
MaxUsers == 4
\* Seats the layout editor adds to the built-in layout in one run.
MaxSeatsAdded == 2
\* saveSeats calls of one tab whose request is in flight at a time.
MaxSavesInFlight == 2

\* ------------------------------------------------------------- basic values

Clients == {"tab1", "tab2"}

Null == << >>
Some(v) == <<v>>

NoTime == -1   \* selectedTime === ''

RECURSIVE FindIndex(_, _, _)
\* Array.prototype.findIndex, 1-based; 0 when no element satisfies P.
FindIndex(seq, P(_), i) ==
  IF i > Len(seq) THEN 0
  ELSE IF P(seq[i]) THEN i
  ELSE FindIndex(seq, P, i + 1)

SomeElem(seq, P(_)) == \E i \in 1..Len(seq) : P(seq[i])

\* ------------------------------------------------------------- types.ts

STUDENT == "STUDENT"
ADMIN == "ADMIN"

STANDARD == "Standard"
QUIET == "Quiet Zone"
PC == "PC Station"

\* ------------------------------------------------------- services/storage

KEYS == [USERS |-> "libbook_users", SEATS |-> "libbook_seats",
         BOOKINGS |-> "libbook_bookings", CURRENT_USER |-> "libbook_current_user"]

KeyNames == {KEYS.USERS, KEYS.SEATS, KEYS.BOOKINGS, KEYS.CURRENT_USER}

INITIAL_SEATS ==
  <<
     [id |-> <<"s-l1">>, label |-> <<76, 49>>, type |-> "Standard", isMaintenance |-> FALSE, x |-> 1, y |-> 1, rotation |-> 180],  \* L1
     [id |-> <<"s-l2">>, label |-> <<76, 50>>, type |-> "Standard", isMaintenance |-> FALSE, x |-> 2, y |-> 1, rotation |-> 180],  \* L2
     [id |-> <<"s-l3">>, label |-> <<76, 51>>, type |-> "Standard", isMaintenance |-> FALSE, x |-> 3, y |-> 1, rotation |-> 180],  \* L3
     [id |-> <<"s-pc1">>, label |-> <<80, 67, 49>>, type |-> "PC Station", isMaintenance |-> FALSE, x |-> 9, y |-> 0, rotation |-> 180],  \* PC1
     [id |-> <<"s-pc2">>, label |-> <<80, 67, 50>>, type |-> "PC Station", isMaintenance |-> FALSE, x |-> 10, y |-> 0, rotation |-> 180],  \* PC2
     [id |-> <<"s-pc3">>, label |-> <<80, 67, 51>>, type |-> "PC Station", isMaintenance |-> FALSE, x |-> 11, y |-> 0, rotation |-> 180],  \* PC3
     [id |-> <<"s-pc4">>, label |-> <<80, 67, 52>>, type |-> "PC Station", isMaintenance |-> FALSE, x |-> 13, y |-> 1, rotation |-> 225],  \* PC4
     [id |-> <<"s-t1-1">>, label |-> <<84, 49, 45, 65>>, type |-> "Quiet Zone", isMaintenance |-> FALSE, x |-> 11, y |-> 3, rotation |-> 180],  \* T1-A
     [id |-> <<"s-t1-2">>, label |-> <<84, 49, 45, 66>>, type |-> "Quiet Zone", isMaintenance |-> FALSE, x |-> 11, y |-> 5, rotation |-> 0],  \* T1-B
     [id |-> <<"s-t1-3">>, label |-> <<84, 49, 45, 67>>, type |-> "Quiet Zone", isMaintenance |-> FALSE, x |-> 10, y |-> 4, rotation |-> 90],  \* T1-C
     [id |-> <<"s-t1-4">>, label |-> <<84, 49, 45, 68>>, type |-> "Quiet Zone", isMaintenance |-> FALSE, x |-> 12, y |-> 4, rotation |-> 270],  \* T1-D
     [id |-> <<"s-t2-1">>, label |-> <<84, 50, 45, 65>>, type |-> "Quiet Zone", isMaintenance |-> FALSE, x |-> 11, y |-> 7, rotation |-> 180],  \* T2-A
     [id |-> <<"s-t2-2">>, label |-> <<84, 50, 45, 66>>, type |-> "Quiet Zone", isMaintenance |-> FALSE, x |-> 11, y |-> 9, rotation |-> 0],  \* T2-B
     [id |-> <<"s-t2-3">>, label |-> <<84, 50, 45, 67>>, type |-> "Quiet Zone", isMaintenance |-> FALSE, x |-> 10, y |-> 8, rotation |-> 90],  \* T2-C
     [id |-> <<"s-t2-4">>, label |-> <<84, 50, 45, 68>>, type |-> "Quiet Zone", isMaintenance |-> FALSE, x |-> 12, y |-> 8, rotation |-> 270],  \* T2-D
     [id |-> <<"s-c1">>, label |-> <<67, 49>>, type |-> "Standard", isMaintenance |-> FALSE, x |-> 1, y |-> 4, rotation |-> 90],  \* C1
     [id |-> <<"s-c2">>, label |-> <<67, 50>>, type |-> "Standard", isMaintenance |-> FALSE, x |-> 2, y |-> 4, rotation |-> 90],  \* C2
     [id |-> <<"s-c3">>, label |-> <<67, 51>>, type |-> "Standard", isMaintenance |-> FALSE, x |-> 3, y |-> 4, rotation |-> 90],  \* C3
     [id |-> <<"s-c4">>, label |-> <<67, 52>>, type |-> "Standard", isMaintenance |-> FALSE, x |-> 4, y |-> 4, rotation |-> 90],  \* C4
     [id |-> <<"s-c5">>, label |-> <<67, 53>>, type |-> "Standard", isMaintenance |-> FALSE, x |-> 1, y |-> 6, rotation |-> 90],  \* C5
     [id |-> <<"s-c6">>, label |-> <<67, 54>>, type |-> "Standard", isMaintenance |-> FALSE, x |-> 2, y |-> 6, rotation |-> 90],  \* C6
     [id |-> <<"s-c7">>, label |-> <<67, 55>>, type |-> "Standard", isMaintenance |-> FALSE, x |-> 3, y |-> 6, rotation |-> 90],  \* C7
     [id |-> <<"s-c8">>, label |-> <<67, 56>>, type |-> "Standard", isMaintenance |-> FALSE, x |-> 4, y |-> 6, rotation |-> 90],  \* C8
     [id |-> <<"s-c9">>, label |-> <<67, 57>>, type |-> "Standard", isMaintenance |-> FALSE, x |-> 1, y |-> 8, rotation |-> 90],  \* C9
     [id |-> <<"s-c10">>, label |-> <<67, 49, 48>>, type |-> "Standard", isMaintenance |-> FALSE, x |-> 2, y |-> 8, rotation |-> 90],  \* C10
     [id |-> <<"s-c11">>, label |-> <<67, 49, 49>>, type |-> "Standard", isMaintenance |-> FALSE, x |-> 3, y |-> 8, rotation |-> 90],  \* C11
     [id |-> <<"s-c12">>, label |-> <<67, 49, 50>>, type |-> "Standard", isMaintenance |-> FALSE, x |-> 4, y |-> 8, rotation |-> 90]  \* C12
  >>

Undefined == <<"undefined">>

ADMIN_USER ==
  [id |-> <<"admin-1">>,
   name |-> <<"L", "i", "b", "r", "a", "r", "y", " ", "A", "d", "m", "i", "n">>,
   email |-> <<"a", "d", "m", "i", "n", "@", "l", "i", "b", "r", "a", "r", "y", ".", "e", "d", "u">>,
   password |-> <<"a", "d", "m", "i", "n">>,
   role |-> ADMIN, studentId |-> Undefined,
   department |-> Undefined, yearSection |-> Undefined, mobile |-> Undefined,
   isBlocked |-> FALSE]

DEMO_STUDENT ==
  [id |-> <<"student-1">>,
   name |-> <<"J", "o", "h", "n", " ", "D", "o", "e">>,
   email |-> <<"j", "o", "h", "n", "@", "s", "t", "u", "d", "e", "n", "t", ".", "e", "d", "u">>,
   password |-> <<"p", "a", "s", "s">>,
   role |-> STUDENT,
   studentId |-> <<"C", "S", "2", "0", "2", "4", "0", "0", "1">>,
   department |-> <<"C", "o", "m", "p", "u", "t", "e", "r", " ", "S", "c", "i", "e", "n", "c", "e">>,
   yearSection |-> <<"3", "-", "A">>,
   mobile |-> <<"5", "5", "5", "0", "1", "2", "3", "4", "5", "6">>,
   isBlocked |-> FALSE]

JSON_stringify(v) == <<v>>
JSON_parse(item) == item[1]

getItem(ls, key) == ls[key]
setItem(ls, key, value) == [ls EXCEPT ![key] = value]

\* What fetch() gives safeFetch: a rejection (network failure), an abort by the
\* 3000 ms timer, or a response; json is Null when the body is not JSON.
Answer(kind, status, json) == [kind |-> kind, status |-> status, json |-> json]

NetworkErrors == {Answer("neterr", 0, Null), Answer("abort", 0, Null)}

\* A safeFetch without its first line: it tries the backend whatever the flag says.
safeFetchIssues_ignoringFlag(offline) == TRUE

\* safeFetch issues a request only while the flag is unset.
safeFetchIssues(offline) == ~offline

\* A safeFetch that throws when fetch does, and trusts whatever response it gets.
safeFetchThrows_onRejection(ans) == ans.kind # "response"

\* safeFetch throws on a rejected or aborted fetch and on a status of 500 or more.
safeFetchThrows(ans) == ans.kind # "response" \/ ans.status >= 500

\* The catch block of safeFetch sets the flag; nothing ever clears it.
offlineAfter(offline, ans) == offline \/ safeFetchThrows(ans)

\* The fallback branches of the three reads: the value returned and localStorage
\* afterwards (the first read of users or seats seeds the blob).
getStoredUsersFallback(ls) ==
  LET stored == getItem(ls, KEYS.USERS)
      initial == <<ADMIN_USER, DEMO_STUDENT>>
  IN IF stored = Null
     THEN [ret |-> initial, ls |-> setItem(ls, KEYS.USERS, JSON_stringify(initial))]
     ELSE [ret |-> JSON_parse(stored), ls |-> ls]

\* A getStoredSeats whose fallback returns the built-in layout whatever is stored.
getStoredSeatsFallback_reseeding(ls) ==
  [ret |-> INITIAL_SEATS, ls |-> setItem(ls, KEYS.SEATS, JSON_stringify(INITIAL_SEATS))]

getStoredSeatsFallback(ls) ==
  LET stored == getItem(ls, KEYS.SEATS)
  IN IF stored = Null
     THEN [ret |-> INITIAL_SEATS,
           ls |-> setItem(ls, KEYS.SEATS, JSON_stringify(INITIAL_SEATS))]
     ELSE [ret |-> JSON_parse(stored), ls |-> ls]

getStoredBookingsFallback(ls) ==
  LET stored == getItem(ls, KEYS.BOOKINGS)
  IN [ret |-> IF stored # Null THEN JSON_parse(stored) ELSE << >>, ls |-> ls]

\* A conflict check that compares the booking's user where the code compares its seat.
isTaken_byUser(bookings, booking) ==
  SomeElem(bookings, LAMBDA b : /\ b.userId = booking.userId
                                /\ b.date = booking.date
                                /\ b.startTime = booking.startTime
                                /\ b.status = "ACTIVE")

\* createBooking's conflict check over the bookings it read.
isTaken(bookings, booking) ==
  SomeElem(bookings, LAMBDA b : /\ b.seatId = booking.seatId
                                /\ b.date = booking.date
                                /\ b.startTime = booking.startTime
                                /\ b.status = "ACTIVE")

\* A createBooking that takes any 2xx response for a success.
createBookingRemote_ok(ans) == ans.status \in 200..299

\* The try branch of createBooking once safeFetch has returned the response:
\* return res.status === 201.
createBookingRemote(ans) == ans.status = 201

\* A createBooking fallback without its conflict check.
createBookingFallback_unchecked(bookings, booking) ==
  [ret |-> TRUE, write |-> Some(JSON_stringify(Append(bookings, booking)))]

\* The fallback branch of createBooking after its read: the value returned and
\* the blob written (Null: nothing is written).
createBookingFallback(bookings, booking) ==
  IF isTaken(bookings, booking)
  THEN [ret |-> FALSE, write |-> Null]
  ELSE [ret |-> TRUE, write |-> Some(JSON_stringify(Append(bookings, booking)))]

\* A cancelBooking that flips the status where the code sets it.
cancelBookingFallback_toggling(bookings, bookingId) ==
  LET index == FindIndex(bookings, LAMBDA b : b.id = bookingId, 1)
  IN IF index # 0
     THEN Some(JSON_stringify([bookings EXCEPT ![index].status =
                                 IF @ = "ACTIVE" THEN "CANCELLED" ELSE "ACTIVE"]))
     ELSE Null

\* A cancelBooking that drops the record where the code marks it.
cancelBookingFallback_removing(bookings, bookingId) ==
  LET index == FindIndex(bookings, LAMBDA b : b.id = bookingId, 1)
  IN IF index # 0
     THEN Some(JSON_stringify(SelectSeq(bookings, LAMBDA b : b.id # bookingId)))
     ELSE Null

\* The fallback branch of cancelBooking after its read: the blob written.
cancelBookingFallback(bookings, bookingId) ==
  LET index == FindIndex(bookings, LAMBDA b : b.id = bookingId, 1)
  IN IF index # 0
     THEN Some(JSON_stringify([bookings EXCEPT ![index].status = "CANCELLED"]))
     ELSE Null

\* --------------------------------------------------- StudentDashboard

\* ALL_TIME_SLOTS: hourInt of the 12 slots, 8 AM to 7 PM.
ALL_TIME_SLOTS == [i \in 1..12 |-> (i - 1) + 8]

MinutesPerDay == 24 * 60

\* new Date('yyyy-MM-dd') is midnight UTC of that day; isSameDay compares local
\* calendar days.  tz is the zone's offset from UTC in minutes (local = UTC + tz).
localDayOfDateString(date, tz) == (date * MinutesPerDay + tz) \div MinutesPerDay

isSameDay(selectedDate, t) == localDayOfDateString(selectedDate, t.tz) = t.day

\* getAvailableTimeSlots at local time t = [day, hour, tz].
getAvailableTimeSlots(selectedDate, t) ==
  LET isToday == isSameDay(selectedDate, t)
      currentHour == t.hour
  IN SelectSeq(ALL_TIME_SLOTS, LAMBDA hourInt : IF isToday THEN hourInt > currentHour ELSE TRUE)

\* The effect that resets selectedTime when it is no longer offered.
resetSelectedTime(selectedDate, selectedTime, t) ==
  LET filteredSlots == getAvailableTimeSlots(selectedDate, t)
  IN IF Len(filteredSlots) > 0
     THEN IF SomeElem(filteredSlots, LAMBDA s : s = selectedTime)
          THEN selectedTime
          ELSE filteredSlots[1]
     ELSE NoTime

\* A render of StudentDashboard, the dashboard's state being st at time t: the
\* slots are filtered anew and the effect resets selectedTime.
renderStudent(st, t) ==
  [st EXCEPT !.selectedTime = resetSelectedTime(st.selectedDate, @, t)]

\* availableDates: today and the two days after it.
availableDates(t) == {t.day + days : days \in 0..2}

activeSlotBookings(st) ==
  {st.bookings[i].seatId : i \in {j \in 1..Len(st.bookings) :
      /\ st.bookings[j].date = st.selectedDate
      /\ st.bookings[j].startTime = st.selectedTime
      /\ st.bookings[j].status = "ACTIVE"}}

\* SeatMap.getSeatStatus
getSeatStatus(seat, bookingsForSlot) ==
  IF seat.isMaintenance THEN "MAINTENANCE"
  ELSE IF seat.id \in bookingsForSlot THEN "BOOKED"
  ELSE "AVAILABLE"

\* SeatMap: a seat button reacts to a click for an admin, or when AVAILABLE.
isClickable(seat, bookingsForSlot, isAdmin) ==
  isAdmin \/ getSeatStatus(seat, bookingsForSlot) = "AVAILABLE"

\* handleBook's own check, against the bookings the tab last loaded.
hasConflict(st, user) ==
  SomeElem(st.bookings, LAMBDA b : /\ b.userId = user.id
                                   /\ b.date = st.selectedDate
                                   /\ b.startTime = st.selectedTime
                                   /\ b.status = "ACTIVE")

newBooking(st, user, dateNow) ==
  [id |-> <<"bk-", dateNow>>,
   seatId |-> st.selectedSeat[1].id,
   userId |-> user.id,
   userName |-> user.name,
   date |-> st.selectedDate,
   startTime |-> st.selectedTime,
   endTime |-> (st.selectedTime + 1) % 24,
   timestamp |-> dateNow,
   status |-> "ACTIVE"]

\* ------------------------------------------------------------------ Auth

\* \s and \d over the characters typed in the runs.
Whitespace == {" "}
Digits == {"0", "1", "2", "3", "4", "5", "6", "7", "8", "9"}

\* /^[^\s@]+@[^\s@]+\.[^\s@]+$/.test(email)
emailRegexTest(email) ==
  \E at \in 1..Len(email), dot \in 1..Len(email) :
    /\ email[at] = "@"
    /\ email[dot] = "."
    /\ 1 < at
    /\ at + 1 < dot
    /\ dot < Len(email)
    /\ \A i \in 1..Len(email) : i # at => email[i] \notin Whitespace \cup {"@"}

\* /^\d{10}$/.test(mobile)
mobileRegexTest(mobile) ==
  /\ Len(mobile) = 10
  /\ \A i \in 1..Len(mobile) : mobile[i] \in Digits

RECURSIVE trimStart(_)
trimStart(s) ==
  IF s # << >> /\ Head(s) \in Whitespace THEN trimStart(Tail(s)) ELSE s

RECURSIVE trimEnd(_)
trimEnd(s) ==
  IF s # << >> /\ s[Len(s)] \in Whitespace THEN trimEnd(SubSeq(s, 1, Len(s) - 1)) ELSE s

\* String.prototype.trim
trim(s) == trimEnd(trimStart(s))

EMAIL_ERROR == "Please enter a valid email address."
PASSWORD_ERROR == "Password must be at least 4 characters long."
NAME_ERROR == "Full Name is required."
STUDENT_ID_ERROR == "Student ID is required."
DEPARTMENT_ERROR == "Please select a department."
MOBILE_ERROR == "Mobile number must be exactly 10 digits."
BLOCKED_ERROR == "Your account has been blocked by the administrator."
INVALID_ERROR == "Invalid credentials. Please try again."
DUPLICATE_ERROR == "An account with this email already exists."
CONNECTION_ERROR == "Connection error. Please try again."

\* A validateForm that applies the rules of the login form to a registration.
validateForm_asLogin(isLogin, formData) ==
  IF ~emailRegexTest(formData.email) THEN Some(EMAIL_ERROR)
  ELSE IF Len(formData.password) < 4 THEN Some(PASSWORD_ERROR)
  ELSE Null

\* validateForm: Null, or the message of the first rule the form breaks.
validateForm(isLogin, formData) ==
  IF ~emailRegexTest(formData.email) THEN Some(EMAIL_ERROR)
  ELSE IF Len(formData.password) < 4 THEN Some(PASSWORD_ERROR)
  ELSE IF ~isLogin /\ trim(formData.name) = << >> THEN Some(NAME_ERROR)
  ELSE IF ~isLogin /\ trim(formData.studentId) = << >> THEN Some(STUDENT_ID_ERROR)
  ELSE IF ~isLogin /\ formData.department = << >> THEN Some(DEPARTMENT_ERROR)
  ELSE IF ~isLogin /\ ~mobileRegexTest(formData.mobile) THEN Some(MOBILE_ERROR)
  ELSE Null

\* A search for the email that also wants the stored password to be the one
\* typed in: the index of the user found (0: none).
findRegistered_withPassword(users, formData) ==
  FindIndex(users, LAMBDA u : u.email = formData.email /\ u.password = formData.password, 1)

\* handleSubmit, registration: users.find(u => u.email === formData.email), as
\* the index of the user found (0: none).
findRegistered(users, formData) ==
  FindIndex(users, LAMBDA u : u.email = formData.email, 1)

\* handleSubmit, login: users.find(u => u.email === formData.email &&
\* u.password === formData.password), as the index of the user found (0: none).
findLogin(users, formData) ==
  FindIndex(users, LAMBDA u : u.email = formData.email /\ u.password = formData.password, 1)

\* A registration that takes the administrator's role.
newUser_asAdmin(formData, dateNow) ==
  [id |-> <<"user-", dateNow>>,
   role |-> ADMIN,
   isBlocked |-> FALSE,
   name |-> formData.name,
   email |-> formData.email,
   password |-> formData.password,
   studentId |-> formData.studentId,
   department |-> formData.department,
   yearSection |-> formData.yearSection,
   mobile |-> formData.mobile]

\* handleSubmit's newUser.
newUser(formData, dateNow) ==
  [id |-> <<"user-", dateNow>>,
   role |-> STUDENT,
   isBlocked |-> FALSE,
   name |-> formData.name,
   email |-> formData.email,
   password |-> formData.password,
   studentId |-> formData.studentId,
   department |-> formData.department,
   yearSection |-> formData.yearSection,
   mobile |-> formData.mobile]

\* The fallback branch of saveUser after its read: the blob written.
saveUserFallback(users, user) == JSON_stringify(Append(users, user))

\* An updateUser whose fallback adds the user when it does not find it.
updateUserFallback_adding(users, updatedUser) ==
  LET index == FindIndex(users, LAMBDA u : u.id = updatedUser.id, 1)
  IN IF index # 0
     THEN Some(JSON_stringify([users EXCEPT ![index] = updatedUser]))
     ELSE Some(JSON_stringify(Append(users, updatedUser)))

\* An updateUser whose fallback finds the user and writes nothing.
updateUserFallback_dropping(users, updatedUser) == Null

\* The fallback branch of updateUser after its read: the blob written, if any.
updateUserFallback(users, updatedUser) ==
  LET index == FindIndex(users, LAMBDA u : u.id = updatedUser.id, 1)
  IN IF index # 0
     THEN Some(JSON_stringify([users EXCEPT ![index] = updatedUser]))
     ELSE Null

\* --------------------------------------------------------- AdminDashboard

RECURSIVE decimal(_)
\* The decimal digits of a non-negative integer, as code units.
decimal(n) ==
  IF n < 10 THEN <<48 + n>> ELSE decimal(n \div 10) \o <<48 + (n % 10)>>

\* String.fromCharCode(65 + y) followed by x + 1, with the arguments swapped.
generateLabel_swapped(x, y) == <<(65 + x) % 65536>> \o decimal(y + 1)

\* generateLabel: `${String.fromCharCode(65 + y)}${x + 1}`
generateLabel(x, y) == <<(65 + y) % 65536>> \o decimal(x + 1)

\* SeatMap's grid: COLS columns, and the rows down to the lowest seat (8 at
\* least), one more in edit mode.
COLS == 15

maxRow(seats) ==
  LET ys == {8} \cup {seats[i].y : i \in 1..Len(seats)}
  IN CHOOSE m \in ys : \A y \in ys : y <= m

rows(seats, isEditMode) == IF isEditMode THEN maxRow(seats) + 2 ELSE maxRow(seats) + 1

\* renderGrid's seats.find(s => s.x === x && s.y === y), as an index (0: none).
seatAt(seats, x, y) == FindIndex(seats, LAMBDA s : s.x = x /\ s.y = y, 1)

\* handleEmptySlotClick, move: the seats with the selected one at (x, y).
moveSeat(seats, selectedSeat, x, y) ==
  [i \in 1..Len(seats) |->
     IF seats[i].id = selectedSeat.id
     THEN [seats[i] EXCEPT !.x = x, !.y = y, !.label = generateLabel(x, y)]
     ELSE seats[i]]

\* handleEmptySlotClick, create: the seat added at (x, y).
newSeat(x, y, dateNow) ==
  [id |-> <<"seat-", dateNow>>,
   label |-> generateLabel(x, y),
   type |-> STANDARD,
   isMaintenance |-> FALSE,
   x |-> x,
   y |-> y,
   rotation |-> 0]

\* handleChangeType: the seats with the selected one of the type chosen.
changeType(seats, selectedSeat, type) ==
  [i \in 1..Len(seats) |->
     IF seats[i].id = selectedSeat.id THEN [seats[i] EXCEPT !.type = type] ELSE seats[i]]

\* handleRotateSeat's newRotation: ((selectedSeat.rotation || 0) + 90) % 360.
newRotation(selectedSeat) == (selectedSeat.rotation + 90) % 360

\* handleRotateSeat: the seats with the selected one at newRotation.
rotateSeat(seats, selectedSeat) ==
  [i \in 1..Len(seats) |->
     IF seats[i].id = selectedSeat.id
     THEN [seats[i] EXCEPT !.rotation = newRotation(selectedSeat)]
     ELSE seats[i]]

\* handleDeleteSeat: seats.filter(s => s.id !== selectedSeat.id).
deleteSeat(seats, selectedSeat) == SelectSeq(seats, LAMBDA s : s.id # selectedSeat.id)

\* A saveSeats whose fallback keeps the stored seats that the seats saved do not
\* name.
saveSeatsFallback_merging(ls, seats) ==
  LET stored == IF getItem(ls, KEYS.SEATS) = Null THEN << >>
                ELSE JSON_parse(getItem(ls, KEYS.SEATS))
      kept == SelectSeq(stored, LAMBDA s : \A i \in 1..Len(seats) : seats[i].id # s.id)
  IN setItem(ls, KEYS.SEATS, JSON_stringify(seats \o kept))

\* The fallback branch of saveSeats: localStorage after it.
saveSeatsFallback(ls, seats) == setItem(ls, KEYS.SEATS, JSON_stringify(seats))

\* The fallback branch of toggleSeatMaintenance after its read: the blob written.
toggleSeatMaintenanceFallback(seats, seatId) ==
  LET index == FindIndex(seats, LAMBDA s : s.id = seatId, 1)
  IN IF index # 0
     THEN Some(JSON_stringify([seats EXCEPT ![index].isMaintenance = ~@]))
     ELSE Null

\* ------------------------------------------------------------------ state

VARIABLES
  localStorage,   \* the browser's localStorage, shared by its tabs: key -> Null or <<blob>>
  isOfflineMode,  \* the module-level flag of services/storage, one per tab
  clock,          \* Date.now()
  now,            \* the local wall clock: [day, hour, tz]
  currentUser,    \* App's currentUser, one per tab: Null or <<user>>
  proc,           \* the handler in flight in each tab and what it holds
  student,        \* StudentDashboard's React state, one per tab
  auth,           \* Auth's React state, one per tab
  admin,          \* AdminDashboard's React state, one per tab
  hist,           \* history, per tab: has a remote call failed, was one issued after that
  last            \* history, per tab: the outcome of the last handler or store call

vars == <<localStorage, isOfflineMode, clock, now, currentUser, proc, student, auth, admin,
          hist, last>>

Idle == [pc |-> "idle"]

\* A student who registered through Auth before the run.
REGISTERED_STUDENT ==
  [id |-> <<"user-", 0 - 1>>,
   name |-> <<"A", "s", "h", "a", " ", "R", "a", "o">>,
   email |-> <<"a", "s", "h", "a", "@", "x", ".", "i", "o">>,
   password |-> <<"a", "s", "h", "a", "1">>,
   role |-> STUDENT,
   studentId |-> <<"E", "E", "2", "0", "2", "4", "0", "0", "7">>,
   department |-> <<"E", "E">>,
   yearSection |-> <<"2", "-", "B">>,
   mobile |-> <<"9", "8", "7", "6", "5", "4", "3", "2", "1", "0">>,
   isBlocked |-> FALSE]

\* A booking the remote backend may already hold.
REMOTE_BOOKING ==
  [id |-> <<"bk-", 0>>, seatId |-> <<"s-l1">>, userId |-> DEMO_STUDENT.id,
   userName |-> DEMO_STUDENT.name, date |-> 1, startTime |-> 19, endTime |-> 20,
   timestamp |-> 0, status |-> "ACTIVE"]

\* The inputs the runs draw from.
Students == {DEMO_STUDENT, REGISTERED_STUDENT}
PickSeatIds == {<<"s-l1">>, <<"s-l2">>}
PickDateOffsets == {0}
PickTimes == {19}
RemoteSeatsBodies == {INITIAL_SEATS}
RemoteBookingsBodies == {<< >>, <<REMOTE_BOOKING>>}
MutationStatuses == {200, 201, 409, 500}

MutationAnswers == NetworkErrors \cup {Answer("response", s, Null) : s \in MutationStatuses}

ReadAnswers(bodies) ==
  NetworkErrors \cup {Answer("response", 500, Null), Answer("response", 404, Null)}
    \cup {Answer("response", 200, Some(body)) : body \in bodies}

InitStudent(t) ==
  [seats |-> << >>, bookings |-> << >>, selectedSeat |-> Null,
   selectedDate |-> t.day, selectedTime |-> resetSelectedTime(t.day, NoTime, t)]

EmptyForm ==
  [name |-> << >>, email |-> << >>, password |-> << >>, studentId |-> << >>,
   department |-> << >>, yearSection |-> << >>, mobile |-> << >>]

InitAuth == [isLogin |-> TRUE, formData |-> EmptyForm, error |-> "", isLoading |-> FALSE]

InitAdmin ==
  [activeTab |-> "overview", seats |-> << >>, users |-> << >>, bookings |-> << >>,
   isEditMode |-> FALSE, selectedSeat |-> Null]

\* The tabs after their page load, Auth being as a says in each.
InitProcesses(a) ==
  /\ auth = [c \in Clients |-> a]
  /\ admin = [c \in Clients |-> InitAdmin]
  /\ isOfflineMode = [c \in Clients |-> FALSE]
  /\ clock = 0
  /\ proc = [c \in Clients |-> Idle]
  /\ hist = [c \in Clients |-> [failed |-> FALSE, fetchedAfterFailure |-> FALSE]]
  /\ last = [c \in Clients |-> [op |-> "none"]]

InitStore ==
  /\ localStorage = [k \in KeyNames |-> Null]
  /\ InitProcesses(InitAuth)

\* One student's tab; the browser's other tab still shows the sign-in screen.
Init ==
  /\ InitStore
  /\ now = [day |-> 1, hour |-> 18, tz |-> 0]
  /\ currentUser = [tab1 |-> Some(DEMO_STUDENT), tab2 |-> Null]
  /\ student = [c \in Clients |-> InitStudent(now)]

\* Two students' tabs of one browser (the same student twice, or two students).
InitTabs ==
  /\ InitStore
  /\ now = [day |-> 1, hour |-> 18, tz |-> 0]
  /\ currentUser \in {[tab1 |-> Some(DEMO_STUDENT), tab2 |-> Some(u)] : u \in Students}
  /\ student = [c \in Clients |-> InitStudent(now)]

\* ------------------------------------------------- history bookkeeping

\* How a remote call ended: in a network failure, in an abort by the timer, or
\* in a response, which is a failure from status 500 on.
isFailure(ans) ==
  \/ ans.kind = "neterr"
  \/ ans.kind = "abort"
  \/ ans.kind = "response" /\ ans.status >= 500

issued(h) == [h EXCEPT !.fetchedAfterFailure = @ \/ h.failed]
answered(h, ans) == [h EXCEPT !.failed = @ \/ isFailure(ans)]

\* ------------------------------------------------- the student's actions

isStudentTab(c) == currentUser[c] # Null /\ currentUser[c][1].role = STUDENT

SelectDate(c, date) ==
  /\ isStudentTab(c)
  /\ proc[c] = Idle
  /\ date \in availableDates(now)
  /\ student' = [student EXCEPT ![c].selectedDate = date,
                                ![c].selectedTime = resetSelectedTime(date, @, now)]
  /\ UNCHANGED <<localStorage, isOfflineMode, clock, now, currentUser, proc, hist, last, auth, admin>>

SelectTime(c, hourInt) ==
  /\ isStudentTab(c)
  /\ proc[c] = Idle
  /\ SomeElem(getAvailableTimeSlots(student[c].selectedDate, now), LAMBDA s : s = hourInt)
  /\ student' = [student EXCEPT ![c].selectedTime = hourInt]
  /\ UNCHANGED <<localStorage, isOfflineMode, clock, now, currentUser, proc, hist, last, auth, admin>>

\* A click on a seat of the map: setSelectedSeat(seat) when the seat is clickable.
SelectSeat(c, i) ==
  /\ isStudentTab(c)
  /\ proc[c] = Idle
  /\ i \in 1..Len(student[c].seats)
  /\ isClickable(student[c].seats[i], activeSlotBookings(student[c]), FALSE)
  /\ student' = [student EXCEPT ![c] =
                   renderStudent([@ EXCEPT !.selectedSeat = Some(student[c].seats[i])], now)]
  /\ UNCHANGED <<localStorage, isOfflineMode, clock, now, currentUser, proc, hist, last, auth, admin>>

\* loadData calls getStoredSeats and getStoredBookings together; each either has
\* its fetch in flight (Null) or, offline, has read localStorage.
loadDataCall(offline, ls) ==
  IF safeFetchIssues(offline)
  THEN [s |-> Null, b |-> Null, ls |-> ls]
  ELSE LET rs == getStoredSeatsFallback(ls)
           rb == getStoredBookingsFallback(rs.ls)
       IN [s |-> Some(rs.ret), b |-> Some(rb.ret), ls |-> rb.ls]

\* What loadData (and the handler that awaited it) sets once both reads are in.
loadDataSets(st, s, b, after) ==
  renderStudent([st EXCEPT !.seats = s, !.bookings = b,
                           !.selectedSeat = IF after = "book" THEN Null ELSE @], now)

\* The tab goes on with loadData after a handler's store call (after = "book",
\* "cancel") or on a tab change ("tab"), the store being ls at that point.
ThenLoadData(c, offline, ls, after, h) ==
  LET ld == loadDataCall(offline, ls)
  IN /\ localStorage' = ld.ls
     /\ IF ld.s # Null /\ ld.b # Null
        THEN /\ student' = [student EXCEPT ![c] = loadDataSets(@, ld.s[1], ld.b[1], after)]
             /\ proc' = [proc EXCEPT ![c] = Idle]
             /\ hist' = [hist EXCEPT ![c] = h]
        ELSE /\ student' = student
             /\ proc' = [proc EXCEPT ![c] = [pc |-> "loadData", s |-> ld.s, b |-> ld.b,
                                              after |-> after]]
             /\ hist' = [hist EXCEPT ![c] = issued(h)]

LoadData(c) ==
  /\ isStudentTab(c)
  /\ proc[c] = Idle
  /\ ThenLoadData(c, isOfflineMode[c], localStorage, "tab", hist[c])
  /\ UNCHANGED <<isOfflineMode, clock, now, currentUser, last, auth, admin>>

\* refreshData calls getStoredSeats, getStoredUsers and getStoredBookings together.
refreshDataCall(offline, ls) ==
  IF safeFetchIssues(offline)
  THEN [s |-> Null, u |-> Null, b |-> Null, ls |-> ls]
  ELSE LET rs == getStoredSeatsFallback(ls)
           ru == getStoredUsersFallback(rs.ls)
           rb == getStoredBookingsFallback(ru.ls)
       IN [s |-> Some(rs.ret), u |-> Some(ru.ret), b |-> Some(rb.ret), ls |-> rb.ls]

\* What refreshData sets once its three reads are in.
refreshDataSets(ad, s, u, b) == [ad EXCEPT !.seats = s, !.users = u, !.bookings = b]

\* The tab, its AdminDashboard being ad, goes on with refreshData: after a
\* handler's store call or on a change of activeTab, the store being ls.
ThenRefreshData(c, ad, offline, ls, h) ==
  LET rd == refreshDataCall(offline, ls)
  IN /\ localStorage' = rd.ls
     /\ IF rd.s # Null /\ rd.u # Null /\ rd.b # Null
        THEN /\ admin' = [admin EXCEPT ![c] = refreshDataSets(ad, rd.s[1], rd.u[1], rd.b[1])]
             /\ proc' = [proc EXCEPT ![c] = Idle]
             /\ hist' = [hist EXCEPT ![c] = h]
        ELSE /\ admin' = [admin EXCEPT ![c] = ad]
             /\ proc' = [proc EXCEPT ![c] = [pc |-> "refreshData", s |-> rd.s, u |-> rd.u,
                                              b |-> rd.b]]
             /\ hist' = [hist EXCEPT ![c] = issued(h)]

\* One of the reads of loadData or refreshData is answered, which leaves the
\* reads as p has them: the last one in ends the Promise.all.
Settle(c, p) ==
  IF p.s # Null /\ p.b # Null /\ (p.pc = "refreshData" => p.u # Null)
  THEN /\ proc' = [proc EXCEPT ![c] = Idle]
       /\ IF p.pc = "loadData"
          THEN /\ student' = [student EXCEPT ![c] = loadDataSets(@, p.s[1], p.b[1], p.after)]
               /\ admin' = admin
          ELSE /\ admin' = [admin EXCEPT ![c] = refreshDataSets(@, p.s[1], p.u[1], p.b[1])]
               /\ student' = student
  ELSE /\ proc' = [proc EXCEPT ![c] = p]
       /\ UNCHANGED <<student, admin>>

\* The GET /seats of getStoredSeats is answered.
GetStoredSeatsAnswer(c, ans) ==
  /\ proc[c].pc \in {"loadData", "refreshData"}
  /\ proc[c].s = Null
  /\ isOfflineMode' = [isOfflineMode EXCEPT ![c] = offlineAfter(@, ans)]
  /\ hist' = [hist EXCEPT ![c] = answered(@, ans)]
  /\ IF safeFetchThrows(ans) \/ ans.json = Null
     THEN LET r == getStoredSeatsFallback(localStorage)
          IN /\ localStorage' = r.ls
             /\ Settle(c, [proc[c] EXCEPT !.s = Some(r.ret)])
     ELSE /\ localStorage' = localStorage
          /\ Settle(c, [proc[c] EXCEPT !.s = ans.json])
  /\ UNCHANGED <<clock, now, currentUser, auth, last>>

\* The GET /bookings of getStoredBookings is answered.
GetStoredBookingsAnswer(c, ans) ==
  /\ proc[c].pc \in {"loadData", "refreshData"}
  /\ proc[c].b = Null
  /\ isOfflineMode' = [isOfflineMode EXCEPT ![c] = offlineAfter(@, ans)]
  /\ hist' = [hist EXCEPT ![c] = answered(@, ans)]
  /\ IF safeFetchThrows(ans) \/ ans.json = Null
     THEN LET r == getStoredBookingsFallback(localStorage)
          IN /\ localStorage' = r.ls
             /\ Settle(c, [proc[c] EXCEPT !.b = Some(r.ret)])
     ELSE /\ localStorage' = localStorage
          /\ Settle(c, [proc[c] EXCEPT !.b = ans.json])
  /\ UNCHANGED <<clock, now, currentUser, auth, last>>

\* The GET /users of getStoredUsers is answered: to refreshData, or to handleSubmit.
GetStoredUsersAnswer(c, ans) ==
  /\ \/ proc[c].pc = "refreshData" /\ proc[c].u = Null
     \/ proc[c].pc = "handleSubmit:fetch"
  /\ isOfflineMode' = [isOfflineMode EXCEPT ![c] = offlineAfter(@, ans)]
  /\ hist' = [hist EXCEPT ![c] = answered(@, ans)]
  /\ LET r == IF safeFetchThrows(ans) \/ ans.json = Null
              THEN getStoredUsersFallback(localStorage)
              ELSE [ret |-> ans.json[1], ls |-> localStorage]
     IN /\ localStorage' = r.ls
        /\ IF proc[c].pc = "refreshData"
           THEN Settle(c, [proc[c] EXCEPT !.u = Some(r.ret)])
           ELSE /\ proc' = [proc EXCEPT ![c] = [pc |-> "handleSubmit:users",
                                                 isLogin |-> proc[c].isLogin,
                                                 formData |-> proc[c].formData,
                                                 users |-> r.ret]]
                /\ UNCHANGED <<student, admin>>
  /\ UNCHANGED <<clock, now, currentUser, auth, last>>

\* Bookings in localStorage plus the bookings tabs are about to write.
bookingsUnderWay ==
  (IF localStorage[KEYS.BOOKINGS] = Null THEN 0
   ELSE Len(JSON_parse(localStorage[KEYS.BOOKINGS])))
  + Cardinality({c \in Clients : proc[c].pc \in {"createBooking:fetch", "createBooking:fallback"}})

\* The Confirm Booking button.  It is rendered only while a seat is selected.
HandleBook(c, elapsed) ==
  /\ isStudentTab(c)
  /\ proc[c] = Idle
  /\ student[c].selectedSeat # Null
  /\ bookingsUnderWay < MaxBookings
  /\ clock + elapsed <= MaxClock
  /\ clock' = clock + elapsed
  /\ IF student[c].selectedTime = NoTime
     THEN /\ last' = [last EXCEPT ![c] = [op |-> "handleBook", ret |-> "no time slots"]]
          /\ UNCHANGED <<proc, hist>>
     ELSE IF hasConflict(student[c], currentUser[c][1])
     THEN /\ last' = [last EXCEPT ![c] = [op |-> "handleBook", ret |-> "already booked"]]
          /\ UNCHANGED <<proc, hist>>
     ELSE LET booking == newBooking(student[c], currentUser[c][1], clock')
          IN /\ last' = [last EXCEPT ![c] = [op |-> "handleBook", ret |-> "submitted"]]
             /\ IF safeFetchIssues(isOfflineMode[c])
                THEN /\ proc' = [proc EXCEPT ![c] = [pc |-> "createBooking:fetch",
                                                      booking |-> booking]]
                     /\ hist' = [hist EXCEPT ![c] = issued(@)]
                ELSE /\ proc' = [proc EXCEPT ![c] =
                                   [pc |-> "createBooking:fallback", booking |-> booking,
                                    bookings |-> getStoredBookingsFallback(localStorage).ret,
                                    fetched |-> FALSE, answer |-> Null]]
                     /\ hist' = hist
  /\ student' = [student EXCEPT ![c] = renderStudent(@, now)]
  /\ UNCHANGED <<localStorage, isOfflineMode, now, currentUser, auth, admin>>

\* The POST /bookings of createBooking is answered.
CreateBookingAnswer(c, ans) ==
  /\ proc[c].pc = "createBooking:fetch"
  /\ ans \in MutationAnswers
  /\ isOfflineMode' = [isOfflineMode EXCEPT ![c] = offlineAfter(@, ans)]
  /\ IF safeFetchThrows(ans)
     THEN /\ proc' = [proc EXCEPT ![c] =
                        [pc |-> "createBooking:fallback", booking |-> proc[c].booking,
                         bookings |-> getStoredBookingsFallback(localStorage).ret,
                         fetched |-> TRUE, answer |-> Some(ans)]]
          /\ hist' = [hist EXCEPT ![c] = answered(@, ans)]
          /\ UNCHANGED <<localStorage, student, last>>
     ELSE IF createBookingRemote(ans)
     THEN /\ last' = [last EXCEPT ![c] = [op |-> "createBooking", ret |-> TRUE,
                                          local |-> FALSE, fetched |-> TRUE,
                                          answer |-> Some(ans), id |-> proc[c].booking.id,
                                          booking |-> proc[c].booking]]
          /\ ThenLoadData(c, isOfflineMode[c], localStorage, "book", hist[c])
     ELSE /\ last' = [last EXCEPT ![c] = [op |-> "createBooking", ret |-> FALSE,
                                          local |-> FALSE, fetched |-> TRUE,
                                          answer |-> Some(ans), id |-> proc[c].booking.id,
                                          booking |-> proc[c].booking]]
          /\ proc' = [proc EXCEPT ![c] = Idle]
          /\ student' = [student EXCEPT ![c] = renderStudent(@, now)]
          /\ UNCHANGED <<localStorage, hist>>
  /\ UNCHANGED <<clock, now, currentUser, auth, admin>>

\* The fallback branch of createBooking goes on after its read of localStorage.
CreateBookingFallback(c) ==
  /\ proc[c].pc = "createBooking:fallback"
  /\ LET r == createBookingFallback(proc[c].bookings, proc[c].booking)
     IN /\ last' = [last EXCEPT ![c] = [op |-> "createBooking", ret |-> r.ret,
                                        local |-> TRUE, fetched |-> proc[c].fetched,
                                        answer |-> proc[c].answer, id |-> proc[c].booking.id,
                                        booking |-> proc[c].booking]]
        /\ IF r.ret
           THEN ThenLoadData(c, isOfflineMode[c],
                             setItem(localStorage, KEYS.BOOKINGS, r.write[1]), "book", hist[c])
           ELSE /\ proc' = [proc EXCEPT ![c] = Idle]
                /\ student' = [student EXCEPT ![c] = renderStudent(@, now)]
                /\ UNCHANGED <<localStorage, hist>>
  /\ UNCHANGED <<isOfflineMode, clock, now, currentUser, auth, admin>>

\* The Cancel button of a booking the history tab shows as ACTIVE (confirm() accepted).
HandleCancel(c, i) ==
  /\ isStudentTab(c)
  /\ proc[c] = Idle
  /\ i \in 1..Len(student[c].bookings)
  /\ student[c].bookings[i].userId = currentUser[c][1].id
  /\ student[c].bookings[i].status = "ACTIVE"
  /\ IF safeFetchIssues(isOfflineMode[c])
     THEN /\ proc' = [proc EXCEPT ![c] = [pc |-> "cancelBooking:fetch",
                                           bookingId |-> student[c].bookings[i].id]]
          /\ hist' = [hist EXCEPT ![c] = issued(@)]
     ELSE /\ proc' = [proc EXCEPT ![c] =
                        [pc |-> "cancelBooking:fallback",
                         bookingId |-> student[c].bookings[i].id,
                         bookings |-> getStoredBookingsFallback(localStorage).ret,
                         fetched |-> FALSE]]
          /\ hist' = hist
  /\ UNCHANGED <<localStorage, isOfflineMode, clock, now, currentUser, student, last, auth, admin>>

\* The PUT /bookings/{id}/cancel of cancelBooking is answered.
CancelBookingAnswer(c, ans) ==
  /\ proc[c].pc = "cancelBooking:fetch"
  /\ ans \in MutationAnswers
  /\ isOfflineMode' = [isOfflineMode EXCEPT ![c] = offlineAfter(@, ans)]
  /\ IF safeFetchThrows(ans)
     THEN /\ proc' = [proc EXCEPT ![c] =
                        [pc |-> "cancelBooking:fallback", bookingId |-> proc[c].bookingId,
                         bookings |-> getStoredBookingsFallback(localStorage).ret,
                         fetched |-> TRUE]]
          /\ hist' = [hist EXCEPT ![c] = answered(@, ans)]
          /\ UNCHANGED <<localStorage, student, last>>
     ELSE /\ last' = [last EXCEPT ![c] = [op |-> "cancelBooking", local |-> FALSE,
                                          fetched |-> TRUE, before |-> "unknown"]]
          /\ ThenLoadData(c, isOfflineMode[c], localStorage, "cancel", hist[c])
  /\ UNCHANGED <<clock, now, currentUser, auth, admin>>

\* The fallback branch of cancelBooking goes on after its read of localStorage.
CancelBookingFallback(c) ==
  /\ proc[c].pc = "cancelBooking:fallback"
  /\ LET write == cancelBookingFallback(proc[c].bookings, proc[c].bookingId)
         index == FindIndex(proc[c].bookings, LAMBDA b : b.id = proc[c].bookingId, 1)
     IN /\ last' = [last EXCEPT ![c] =
                      [op |-> "cancelBooking", local |-> TRUE, fetched |-> proc[c].fetched,
                       before |-> IF index = 0 THEN "none" ELSE proc[c].bookings[index].status]]
        /\ ThenLoadData(c, isOfflineMode[c],
                        IF write # Null
                        THEN setItem(localStorage, KEYS.BOOKINGS, write[1])
                        ELSE localStorage,
                        "cancel", hist[c])
  /\ UNCHANGED <<isOfflineMode, clock, now, currentUser, auth, admin>>

\* ------------------------------------------------------- Auth's actions

\* handleChange of the field called name.
HandleChange(c, name, value) ==
  /\ currentUser[c] = Null
  /\ auth' = [auth EXCEPT ![c].formData[name] = value, ![c].error = ""]
  /\ UNCHANGED <<localStorage, isOfflineMode, clock, now, currentUser, proc, student, admin,
                 hist, last>>

\* The link under the form: the other mode, email and password emptied.
SwitchMode(c) ==
  /\ currentUser[c] = Null
  /\ auth' = [auth EXCEPT ![c].isLogin = ~@, ![c].error = "",
                          ![c].formData.email = << >>, ![c].formData.password = << >>]
  /\ UNCHANGED <<localStorage, isOfflineMode, clock, now, currentUser, proc, student, admin,
                 hist, last>>

\* Users in localStorage plus the users tabs are about to register.
usersUnderWay ==
  Len(getStoredUsersFallback(localStorage).ret)
  + Cardinality({c \in Clients : proc[c].pc \in {"handleSubmit:fetch", "handleSubmit:users",
                                                 "saveUser:fetch", "saveUser:fallback"}
                                  /\ ~proc[c].isLogin})

\* handleSubmit up to its await of getStoredUsers.  The submit button is disabled
\* while isLoading.
HandleSubmit(c) ==
  /\ currentUser[c] = Null
  /\ ~auth[c].isLoading
  /\ auth[c].isLogin \/ usersUnderWay < MaxUsers
  /\ LET isLogin == auth[c].isLogin
         formData == auth[c].formData
         validationError == validateForm(isLogin, formData)
     IN IF validationError # Null
        THEN /\ auth' = [auth EXCEPT ![c].error = validationError[1]]
             /\ UNCHANGED <<localStorage, proc, hist>>
        ELSE /\ auth' = [auth EXCEPT ![c].error = "", ![c].isLoading = TRUE]
             /\ IF safeFetchIssues(isOfflineMode[c])
                THEN /\ proc' = [proc EXCEPT ![c] = [pc |-> "handleSubmit:fetch",
                                                      isLogin |-> isLogin,
                                                      formData |-> formData]]
                     /\ hist' = [hist EXCEPT ![c] = issued(@)]
                     /\ localStorage' = localStorage
                ELSE LET r == getStoredUsersFallback(localStorage)
                     IN /\ proc' = [proc EXCEPT ![c] = [pc |-> "handleSubmit:users",
                                                         isLogin |-> isLogin,
                                                         formData |-> formData,
                                                         users |-> r.ret]]
                        /\ localStorage' = r.ls
                        /\ hist' = hist
  /\ UNCHANGED <<isOfflineMode, clock, now, currentUser, student, admin, last>>

\* App.handleLogin (setCurrentUser, setSession), and the mount of the dashboard it
\* brings up, whose effect calls loadData or refreshData.  The store is ls and
\* the tab's history h at that point.
handleLogin(c, user, offline, ls, h) ==
  LET session == setItem(ls, KEYS.CURRENT_USER, JSON_stringify(user))
  IN /\ currentUser' = [currentUser EXCEPT ![c] = Some(user)]
     /\ auth' = [auth EXCEPT ![c] = InitAuth]
     /\ IF user.role = ADMIN
        THEN /\ ThenRefreshData(c, admin[c], offline, session, h)
             /\ student' = student
        ELSE /\ ThenLoadData(c, offline, session, "tab", h)
             /\ admin' = admin

\* handleSubmit after its await of getStoredUsers.  getStoredUsers does not
\* reject and the bodies drawn are arrays, so the catch of handleSubmit takes no
\* step here.
HandleSubmitContinue(c, elapsed) ==
  /\ proc[c].pc = "handleSubmit:users"
  /\ LET users == proc[c].users
         formData == proc[c].formData
         refuse(error) ==
           /\ auth' = [auth EXCEPT ![c].error = error, ![c].isLoading = FALSE]
           /\ proc' = [proc EXCEPT ![c] = Idle]
           /\ UNCHANGED <<localStorage, clock, currentUser, student, admin, hist>>
     IN IF proc[c].isLogin
        THEN LET index == findLogin(users, formData)
             IN /\ elapsed = 0
                /\ IF index = 0 THEN refuse(INVALID_ERROR)
                   ELSE IF users[index].isBlocked THEN refuse(BLOCKED_ERROR)
                   ELSE /\ handleLogin(c, users[index], isOfflineMode[c], localStorage,
                                       hist[c])
                        /\ clock' = clock
        ELSE IF findRegistered(users, formData) # 0
        THEN elapsed = 0 /\ refuse(DUPLICATE_ERROR)
        ELSE LET user == newUser(formData, clock + elapsed)
             IN /\ clock + elapsed <= MaxClock
                /\ clock' = clock + elapsed
                /\ IF safeFetchIssues(isOfflineMode[c])
                   THEN /\ proc' = [proc EXCEPT ![c] = [pc |-> "saveUser:fetch",
                                                         isLogin |-> FALSE,
                                                         user |-> user]]
                        /\ hist' = [hist EXCEPT ![c] = issued(@)]
                        /\ localStorage' = localStorage
                   ELSE LET r == getStoredUsersFallback(localStorage)
                        IN /\ proc' = [proc EXCEPT ![c] = [pc |-> "saveUser:fallback",
                                                            isLogin |-> FALSE,
                                                            user |-> user,
                                                            users |-> r.ret]]
                           /\ localStorage' = r.ls
                           /\ hist' = hist
                /\ UNCHANGED <<currentUser, auth, student, admin>>
  /\ UNCHANGED <<isOfflineMode, now, last>>

\* The POST /users of saveUser is answered.  Any status below 500 counts as saved.
SaveUserAnswer(c, ans) ==
  /\ proc[c].pc = "saveUser:fetch"
  /\ isOfflineMode' = [isOfflineMode EXCEPT ![c] = offlineAfter(@, ans)]
  /\ IF safeFetchThrows(ans)
     THEN LET r == getStoredUsersFallback(localStorage)
          IN /\ proc' = [proc EXCEPT ![c] = [pc |-> "saveUser:fallback", isLogin |-> FALSE,
                                              user |-> proc[c].user, users |-> r.ret]]
             /\ localStorage' = r.ls
             /\ hist' = [hist EXCEPT ![c] = answered(@, ans)]
             /\ UNCHANGED <<currentUser, auth, student, admin>>
     ELSE handleLogin(c, proc[c].user, isOfflineMode[c], localStorage, answered(hist[c], ans))
  /\ UNCHANGED <<clock, now, last>>

\* The fallback branch of saveUser goes on after its read of localStorage, and
\* handleSubmit after saveUser.
SaveUserFallback(c) ==
  /\ proc[c].pc = "saveUser:fallback"
  /\ handleLogin(c, proc[c].user, isOfflineMode[c],
                 setItem(localStorage, KEYS.USERS,
                         saveUserFallback(proc[c].users, proc[c].user)),
                 hist[c])
  /\ UNCHANGED <<isOfflineMode, clock, now, last>>

\* App.handleLogout: the dashboard goes, Auth is mounted afresh.
HandleLogout(c) ==
  /\ currentUser[c] # Null
  /\ proc[c] = Idle
  /\ currentUser' = [currentUser EXCEPT ![c] = Null]
  /\ localStorage' = setItem(localStorage, KEYS.CURRENT_USER, Null)
  /\ auth' = [auth EXCEPT ![c] = InitAuth]
  /\ student' = [student EXCEPT ![c] = InitStudent(now)]
  /\ admin' = [admin EXCEPT ![c] = InitAdmin]
  /\ UNCHANGED <<isOfflineMode, clock, now, proc, hist, last>>

\* ------------------------------------------------ the administrator's actions

isAdminTab(c) == currentUser[c] # Null /\ currentUser[c][1].role = ADMIN

\* A tab of the side bar; the effect on activeTab calls refreshData.
SetActiveTab(c, tab) ==
  /\ isAdminTab(c)
  /\ proc[c] = Idle
  /\ tab # admin[c].activeTab
  /\ ThenRefreshData(c, [admin[c] EXCEPT !.activeTab = tab], isOfflineMode[c], localStorage,
                     hist[c])
  /\ last' = [last EXCEPT ![c] = [op |-> "setActiveTab"]]
  /\ UNCHANGED <<isOfflineMode, clock, now, currentUser, student, auth>>

\* The Edit Layout / Finish Editing button.
ToggleEditMode(c) ==
  /\ isAdminTab(c)
  /\ proc[c] = Idle \/ proc[c].pc = "saveSeats:fetch"
  /\ admin[c].activeTab = "seats"
  /\ admin' = [admin EXCEPT ![c].isEditMode = ~@, ![c].selectedSeat = Null]
  /\ last' = [last EXCEPT ![c] = [op |-> "toggleEditMode"]]
  /\ UNCHANGED <<localStorage, isOfflineMode, clock, now, currentUser, proc, student, auth,
                 hist>>

\* The seat the grid draws in a cell is the first one of the list that is there.
isDrawn(seats, i, isEditMode) ==
  /\ seats[i].x \in 0..(COLS - 1)
  /\ seats[i].y \in 0..(rows(seats, isEditMode) - 1)
  /\ seatAt(seats, seats[i].x, seats[i].y) = i

\* handleSeatInteraction: a click on a seat of the admin's map.
HandleSeatInteraction(c, i) ==
  /\ isAdminTab(c)
  /\ IF admin[c].isEditMode
     THEN proc[c] = Idle \/ proc[c].pc = "saveSeats:fetch"
     ELSE proc[c] = Idle
  /\ admin[c].activeTab = "seats"
  /\ i \in 1..Len(admin[c].seats)
  /\ isDrawn(admin[c].seats, i, admin[c].isEditMode)
  /\ isClickable(admin[c].seats[i], {}, TRUE)
  /\ LET seat == admin[c].seats[i]
     IN IF admin[c].isEditMode
        THEN /\ admin' = [admin EXCEPT ![c].selectedSeat =
                            IF @ # Null /\ @[1].id = seat.id THEN Null ELSE Some(seat)]
             /\ UNCHANGED <<localStorage, proc, hist>>
        ELSE /\ admin' = admin
             /\ IF safeFetchIssues(isOfflineMode[c])
                THEN /\ proc' = [proc EXCEPT ![c] = [pc |-> "toggleSeatMaintenance:fetch",
                                                      seatId |-> seat.id]]
                     /\ hist' = [hist EXCEPT ![c] = issued(@)]
                     /\ localStorage' = localStorage
                ELSE LET r == getStoredSeatsFallback(localStorage)
                     IN /\ proc' = [proc EXCEPT ![c] =
                                      [pc |-> "toggleSeatMaintenance:fallback",
                                       seatId |-> seat.id, seats |-> r.ret]]
                        /\ localStorage' = r.ls
                        /\ hist' = hist
  /\ last' = [last EXCEPT ![c] = [op |-> "handleSeatInteraction"]]
  /\ UNCHANGED <<isOfflineMode, clock, now, currentUser, student, auth>>

\* The POST /seats/toggle-maintenance/{id} is answered.
ToggleSeatMaintenanceAnswer(c, ans) ==
  /\ proc[c].pc = "toggleSeatMaintenance:fetch"
  /\ isOfflineMode' = [isOfflineMode EXCEPT ![c] = offlineAfter(@, ans)]
  /\ IF safeFetchThrows(ans)
     THEN LET r == getStoredSeatsFallback(localStorage)
          IN /\ proc' = [proc EXCEPT ![c] = [pc |-> "toggleSeatMaintenance:fallback",
                                              seatId |-> proc[c].seatId, seats |-> r.ret]]
             /\ localStorage' = r.ls
             /\ hist' = [hist EXCEPT ![c] = answered(@, ans)]
             /\ admin' = admin
     ELSE ThenRefreshData(c, admin[c], isOfflineMode[c], localStorage, answered(hist[c], ans))
  /\ UNCHANGED <<clock, now, currentUser, student, auth, last>>

\* The fallback branch of toggleSeatMaintenance goes on after its read, and
\* handleSeatInteraction with refreshData.
ToggleSeatMaintenanceFallback(c) ==
  /\ proc[c].pc = "toggleSeatMaintenance:fallback"
  /\ LET write == toggleSeatMaintenanceFallback(proc[c].seats, proc[c].seatId)
     IN ThenRefreshData(c, admin[c], isOfflineMode[c],
                        IF write # Null
                        THEN setItem(localStorage, KEYS.SEATS, write[1])
                        ELSE localStorage,
                        hist[c])
  /\ UNCHANGED <<isOfflineMode, clock, now, currentUser, student, auth, last>>

\* The editor's handlers await saveSeats and nothing disables their buttons
\* meanwhile: a click is handled while earlier saves are still in flight.
savesInFlight(c) == IF proc[c].pc = "saveSeats:fetch" THEN proc[c].calls ELSE << >>

isEditing(c) ==
  /\ isAdminTab(c)
  /\ proc[c] = Idle \/ proc[c].pc = "saveSeats:fetch"
  /\ admin[c].activeTab = "seats"
  /\ admin[c].isEditMode

canSave(c) == Len(savesInFlight(c)) < MaxSavesInFlight

\* setSeats(updatedSeats); await saveSeats(updatedSeats); and what the handler
\* does after the await: after is Null, or Some(v) for setSelectedSeat(v).
ThenSaveSeats(c, updatedSeats, after) ==
  IF safeFetchIssues(isOfflineMode[c])
  THEN /\ admin' = [admin EXCEPT ![c].seats = updatedSeats]
       /\ proc' = [proc EXCEPT ![c] =
                     [pc |-> "saveSeats:fetch",
                      calls |-> Append(savesInFlight(c),
                                       [seats |-> updatedSeats, after |-> after])]]
       /\ hist' = [hist EXCEPT ![c] = issued(@)]
       /\ localStorage' = localStorage
  ELSE /\ admin' = [admin EXCEPT ![c].seats = updatedSeats,
                                 ![c].selectedSeat = IF after # Null THEN after[1] ELSE @]
       /\ localStorage' = saveSeatsFallback(localStorage, updatedSeats)
       /\ UNCHANGED <<proc, hist>>

\* handleEmptySlotClick: a click on an empty cell of the grid, which has such
\* buttons in edit mode only.  With a seat selected it moves that seat there,
\* otherwise it creates a seat there; then it saves the seats.
HandleEmptySlotClick(c, x, y, elapsed) ==
  /\ isEditing(c)
  /\ canSave(c)
  /\ x \in 0..(COLS - 1)
  /\ y \in 0..(rows(admin[c].seats, TRUE) - 1)
  /\ seatAt(admin[c].seats, x, y) = 0
  /\ LET seats == admin[c].seats
         selectedSeat == admin[c].selectedSeat
         isMove == selectedSeat # Null
         updatedSeats == IF isMove
                         THEN moveSeat(seats, selectedSeat[1], x, y)
                         ELSE Append(seats, newSeat(x, y, clock + elapsed))
     IN /\ isMove => elapsed = 0
        /\ ~isMove => Len(seats) < Len(INITIAL_SEATS) + MaxSeatsAdded
        /\ clock + elapsed <= MaxClock
        /\ clock' = clock + elapsed
        /\ last' = [last EXCEPT ![c] =
                      [op |-> "handleEmptySlotClick", x |-> x, y |-> y,
                       isMove |-> isMove,
                       id |-> IF isMove THEN selectedSeat[1].id ELSE <<"seat-", clock'>>,
                       saved |-> updatedSeats]]
        /\ ThenSaveSeats(c, updatedSeats, IF isMove THEN Some(Null) ELSE Null)
  /\ UNCHANGED <<isOfflineMode, now, currentUser, student, auth>>

\* handleChangeType: one of the three type buttons of the toolbar, which is
\* rendered in edit mode while a seat is selected.
HandleChangeType(c, type) ==
  /\ isEditing(c)
  /\ canSave(c)
  /\ admin[c].selectedSeat # Null
  /\ LET selectedSeat == admin[c].selectedSeat[1]
         updatedSeats == changeType(admin[c].seats, selectedSeat, type)
     IN /\ last' = [last EXCEPT ![c] = [op |-> "handleChangeType", id |-> selectedSeat.id,
                                        saved |-> updatedSeats]]
        /\ ThenSaveSeats(c, updatedSeats, Some(Some([selectedSeat EXCEPT !.type = type])))
  /\ UNCHANGED <<isOfflineMode, clock, now, currentUser, student, auth>>

\* handleRotateSeat: the Rotate button of the toolbar.  last counts the clicks in
\* a row on one seat and keeps the rotation the seat had before the first.
HandleRotateSeat(c) ==
  /\ isEditing(c)
  /\ canSave(c)
  /\ admin[c].selectedSeat # Null
  /\ LET selectedSeat == admin[c].selectedSeat[1]
         updatedSeats == rotateSeat(admin[c].seats, selectedSeat)
         index == FindIndex(admin[c].seats, LAMBDA s : s.id = selectedSeat.id, 1)
         before == IF index = 0 THEN Null ELSE Some(admin[c].seats[index].rotation)
         inARow == last[c].op = "handleRotateSeat" /\ last[c].id = selectedSeat.id
     IN /\ last' = [last EXCEPT ![c] =
                      [op |-> "handleRotateSeat", id |-> selectedSeat.id,
                       before |-> before,
                       times |-> IF inARow THEN (last[c].times % 4) + 1 ELSE 1,
                       original |-> IF inARow /\ last[c].times < 4
                                    THEN last[c].original ELSE before,
                       saved |-> updatedSeats]]
        /\ ThenSaveSeats(c, updatedSeats,
                         Some(Some([selectedSeat EXCEPT !.rotation = newRotation(selectedSeat)])))
  /\ UNCHANGED <<isOfflineMode, clock, now, currentUser, student, auth>>

\* handleDeleteSeat: the Delete button of the toolbar, window.confirm accepted.
HandleDeleteSeat(c) ==
  /\ isEditing(c)
  /\ canSave(c)
  /\ admin[c].selectedSeat # Null
  /\ LET selectedSeat == admin[c].selectedSeat[1]
         updatedSeats == deleteSeat(admin[c].seats, selectedSeat)
     IN /\ last' = [last EXCEPT ![c] = [op |-> "handleDeleteSeat", id |-> selectedSeat.id,
                                        saved |-> updatedSeats]]
        /\ ThenSaveSeats(c, updatedSeats, Some(Null))
  /\ UNCHANGED <<isOfflineMode, clock, now, currentUser, student, auth>>

\* The POST /seats of the k-th saveSeats in flight is answered, and the handler
\* that awaited it ends.
SaveSeatsAnswer(c, k, ans) ==
  /\ proc[c].pc = "saveSeats:fetch"
  /\ k \in 1..Len(proc[c].calls)
  /\ LET call == proc[c].calls[k]
         others == [i \in 1..(Len(proc[c].calls) - 1) |->
                      proc[c].calls[IF i < k THEN i ELSE i + 1]]
     IN /\ isOfflineMode' = [isOfflineMode EXCEPT ![c] = offlineAfter(@, ans)]
        /\ hist' = [hist EXCEPT ![c] = answered(@, ans)]
        /\ localStorage' = IF safeFetchThrows(ans)
                           THEN saveSeatsFallback(localStorage, call.seats)
                           ELSE localStorage
        /\ admin' = [admin EXCEPT ![c].selectedSeat =
                       IF call.after # Null THEN call.after[1] ELSE @]
        /\ proc' = [proc EXCEPT ![c] =
                      IF others = << >> THEN Idle ELSE [@ EXCEPT !.calls = others]]
  /\ UNCHANGED <<clock, now, currentUser, student, auth, last>>

\* A handleBlockUser without its first line.
handleBlockUserReturns_never(targetUser) == FALSE

\* handleBlockUser's early return.
handleBlockUserReturns(targetUser) == targetUser.role = ADMIN

\* handleBlockUser: the Block / Unblock button of a row of the users table.
HandleBlockUser(c, i) ==
  /\ isAdminTab(c)
  /\ proc[c] = Idle
  /\ admin[c].activeTab = "students"
  /\ i \in 1..Len(admin[c].users)
  /\ LET targetUser == admin[c].users[i]
         updated == [targetUser EXCEPT !.isBlocked = ~@]
     IN IF handleBlockUserReturns(targetUser)
        THEN UNCHANGED <<localStorage, proc, hist>>
        ELSE IF safeFetchIssues(isOfflineMode[c])
        THEN /\ proc' = [proc EXCEPT ![c] = [pc |-> "updateUser:fetch",
                                              updatedUser |-> updated]]
             /\ hist' = [hist EXCEPT ![c] = issued(@)]
             /\ localStorage' = localStorage
        ELSE LET r == getStoredUsersFallback(localStorage)
             IN /\ proc' = [proc EXCEPT ![c] = [pc |-> "updateUser:fallback",
                                                 updatedUser |-> updated,
                                                 users |-> r.ret]]
                /\ localStorage' = r.ls
                /\ hist' = hist
  /\ last' = [last EXCEPT ![c] = [op |-> "handleBlockUser",
                                    targetUser |-> admin[c].users[i]]]
  /\ UNCHANGED <<isOfflineMode, clock, now, currentUser, student, auth, admin>>

\* The PUT /users/{id} of updateUser is answered.
UpdateUserAnswer(c, ans) ==
  /\ proc[c].pc = "updateUser:fetch"
  /\ isOfflineMode' = [isOfflineMode EXCEPT ![c] = offlineAfter(@, ans)]
  /\ IF safeFetchThrows(ans)
     THEN LET r == getStoredUsersFallback(localStorage)
          IN /\ proc' = [proc EXCEPT ![c] = [pc |-> "updateUser:fallback",
                                              updatedUser |-> proc[c].updatedUser,
                                              users |-> r.ret]]
             /\ localStorage' = r.ls
             /\ hist' = [hist EXCEPT ![c] = answered(@, ans)]
             /\ admin' = admin
     ELSE ThenRefreshData(c, admin[c], isOfflineMode[c], localStorage, answered(hist[c], ans))
  /\ UNCHANGED <<clock, now, currentUser, student, auth, last>>

\* The fallback branch of updateUser goes on after its read, and handleBlockUser
\* with refreshData.
UpdateUserFallback(c) ==
  /\ proc[c].pc = "updateUser:fallback"
  /\ LET write == updateUserFallback(proc[c].users, proc[c].updatedUser)
     IN ThenRefreshData(c, admin[c], isOfflineMode[c],
                        IF write # Null
                        THEN setItem(localStorage, KEYS.USERS, write[1])
                        ELSE localStorage,
                        hist[c])
  /\ UNCHANGED <<isOfflineMode, clock, now, currentUser, student, auth, last>>

\* The answers of a backend that cannot be reached or is failing.
BackendDown == NetworkErrors \cup {Answer("response", 500, Null)}

\* What the student does in the tab.
StudentClicks(c) ==
  \/ \E k \in PickDateOffsets : SelectDate(c, now.day + k)
  \/ \E t \in PickTimes : SelectTime(c, t)
  \/ \E i \in 1..Len(student[c].seats) :
       student[c].seats[i].id \in PickSeatIds /\ SelectSeat(c, i)
  \/ LoadData(c)
  \/ \E elapsed \in 0..1 : HandleBook(c, elapsed)
  \/ \E i \in 1..Len(student[c].bookings) : HandleCancel(c, i)

\* A student's tab against a backend that may answer anything.
Next ==
  \E c \in Clients :
    \/ StudentClicks(c)
    \/ \E ans \in ReadAnswers(RemoteSeatsBodies) : GetStoredSeatsAnswer(c, ans)
    \/ \E ans \in ReadAnswers(RemoteBookingsBodies) : GetStoredBookingsAnswer(c, ans)
    \/ \E ans \in MutationAnswers : CreateBookingAnswer(c, ans)
    \/ CreateBookingFallback(c)
    \/ \E ans \in MutationAnswers : CancelBookingAnswer(c, ans)
    \/ CancelBookingFallback(c)

Spec == Init /\ [][Next]_vars

\* Two students' tabs sharing localStorage while the backend is down: the loadData
\* of a tab's mount fails, so every later call of the tab goes to localStorage.
NextTabs ==
  \E c \in Clients :
    \/ StudentClicks(c)
    \/ \E ans \in BackendDown : GetStoredSeatsAnswer(c, ans)
    \/ \E ans \in BackendDown : GetStoredBookingsAnswer(c, ans)
    \/ CreateBookingFallback(c)
    \/ CancelBookingFallback(c)

SpecTabs == InitTabs /\ [][NextTabs]_vars

\* The slot picker alone: one student's tab in some time zone at some hour of the
\* day, the student choosing dates and slots while the time passes.
Zones == {0 - 300, 0, 330}

InitSlots ==
  /\ InitStore
  /\ now \in {[day |-> 1, hour |-> h, tz |-> z] : h \in 0..23, z \in Zones}
  /\ currentUser = [tab1 |-> Some(DEMO_STUDENT), tab2 |-> Null]
  /\ student = [c \in Clients |-> InitStudent(now)]

\* The wall clock reaches the next hour of the day; nothing re-renders.
HourPasses ==
  /\ now.hour < 23
  /\ now' = [now EXCEPT !.hour = @ + 1]
  /\ UNCHANGED <<localStorage, isOfflineMode, clock, currentUser, proc, student, hist, last, auth, admin>>

NextSlots ==
  \/ \E c \in Clients :
       \/ \E date \in availableDates(now) : SelectDate(c, date)
       \/ \E i \in 1..Len(ALL_TIME_SLOTS) : SelectTime(c, ALL_TIME_SLOTS[i])
  \/ HourPasses

SpecSlots == InitSlots /\ [][NextSlots]_vars

\* One student's tab while the backend is down and the time passes: the
\* student picks a slot and a seat, books and cancels, at 18 o'clock and later.
InitHour ==
  /\ InitStore
  /\ now = [day |-> 1, hour |-> 18, tz |-> 0]
  /\ currentUser = [tab1 |-> Some(DEMO_STUDENT), tab2 |-> Null]
  /\ student = [c \in Clients |-> InitStudent(now)]

NextHour ==
  \/ StudentClicks("tab1")
  \/ CreateBookingFallback("tab1")
  \/ CancelBookingFallback("tab1")
  \/ \E ans \in NetworkErrors : GetStoredSeatsAnswer("tab1", ans)
  \/ \E ans \in NetworkErrors : GetStoredBookingsAnswer("tab1", ans)
  \/ HourPasses

SpecHour == InitHour /\ [][NextHour]_vars

\* ---------------------------------------------------------- Auth, one tab

\* What a person types into the fields of Auth.
RAVI_FORM ==
  [name |-> <<"R", "a", "v", "i">>,
   email |-> <<"r", "a", "v", "i", "@", "x", ".", "i", "o">>,
   password |-> <<"r", "a", "v", "i", "1">>,
   studentId |-> <<"M", "E", "7">>,
   department |-> <<"M", "E">>,
   yearSection |-> <<"1", "-", "A">>,
   mobile |-> <<"9", "0", "0", "0", "0", "0", "0", "0", "0", "1">>]

\* A student the administrator has blocked.
BLOCKED_STUDENT == [REGISTERED_STUDENT EXCEPT !.isBlocked = TRUE]

TypedValues ==
  [email |-> {RAVI_FORM.email, DEMO_STUDENT.email, BLOCKED_STUDENT.email,
              <<"r", "a", "v", "i", "@", "x">>},
   password |-> {RAVI_FORM.password, DEMO_STUDENT.password, BLOCKED_STUDENT.password,
                 <<"a", "b", "c">>},
   name |-> {RAVI_FORM.name}]

RemoteUsersBodies == {<<ADMIN_USER, DEMO_STUDENT, BLOCKED_STUDENT>>}

\* What a person does on the Auth screen, typing values of typed, and how the
\* tab goes on by itself.
AuthClicks(c, typed) ==
  \/ \E name \in DOMAIN typed : \E value \in typed[name] : HandleChange(c, name, value)
  \/ HandleSubmit(c)
  \/ \E elapsed \in 0..1 : HandleSubmitContinue(c, elapsed)
  \/ SaveUserFallback(c)
  \/ HandleLogout(c)

\* One tab on the Auth screen, where somebody filled in the registration form and
\* went back to the login form; the administrator has blocked a student in the
\* local store, or the store is empty.  The backend may answer anything.
InitAuthScreen ==
  /\ InitProcesses([InitAuth EXCEPT !.formData = [RAVI_FORM EXCEPT !.email = << >>,
                                                                   !.password = << >>]])
  /\ localStorage \in {[k \in KeyNames |-> Null],
                       [[k \in KeyNames |-> Null] EXCEPT ![KEYS.USERS] =
                          JSON_stringify(<<ADMIN_USER, DEMO_STUDENT, BLOCKED_STUDENT>>)]}
  /\ now = [day |-> 1, hour |-> 18, tz |-> 0]
  /\ currentUser = [c \in Clients |-> Null]
  /\ student = [c \in Clients |-> InitStudent(now)]

NextAuth ==
  \E c \in {"tab1"} :
    \/ AuthClicks(c, TypedValues)
    \/ SwitchMode(c)
    \/ \E ans \in ReadAnswers(RemoteUsersBodies) : GetStoredUsersAnswer(c, ans)
    \/ \E ans \in MutationAnswers : SaveUserAnswer(c, ans)
    \/ \E ans \in ReadAnswers(RemoteSeatsBodies) : GetStoredSeatsAnswer(c, ans)
    \/ \E ans \in ReadAnswers(RemoteBookingsBodies) : GetStoredBookingsAnswer(c, ans)

SpecAuth == InitAuthScreen /\ [][NextAuth]_vars

\* ---------------------------------------------------- Auth, two tabs

\* The first tab is the student's, the second one the administrator's once the
\* registration from it is through.
TypedInTabs ==
  [tab1 |-> [email |-> {RAVI_FORM.email}, password |-> {RAVI_FORM.password}],
   tab2 |-> [email |-> {ADMIN_USER.email}, password |-> {ADMIN_USER.password}]]

\* Two tabs of one browser on the Auth screen, the registration form filled in
\* in both, while the backend is down.  Whoever signs in as the administrator
\* may block and unblock students.
InitAuthTabs ==
  /\ localStorage = [k \in KeyNames |-> Null]
  /\ InitProcesses([InitAuth EXCEPT !.isLogin = FALSE, !.formData = RAVI_FORM])
  /\ now = [day |-> 1, hour |-> 18, tz |-> 0]
  /\ currentUser = [c \in Clients |-> Null]
  /\ student = [c \in Clients |-> InitStudent(now)]

NextAuthTabs ==
  \E c \in Clients :
    \/ AuthClicks(c, TypedInTabs[c])
    \/ \E ans \in BackendDown : GetStoredUsersAnswer(c, ans)
    \/ \E tab \in {"overview", "students"} : SetActiveTab(c, tab)
    \/ \E i \in 1..Len(admin[c].users) : HandleBlockUser(c, i)
    \/ UpdateUserFallback(c)

SpecAuthTabs == InitAuthTabs /\ [][NextAuthTabs]_vars

\* ------------------------------------------- the session, two tabs

\* getSession: the user saved under KEYS.CURRENT_USER, or null.
getSession(ls) ==
  IF ls[KEYS.CURRENT_USER] = Null THEN Null ELSE Some(JSON_parse(ls[KEYS.CURRENT_USER]))

\* The page of the tab is loaded again: the module starts with isOfflineMode
\* false, App mounts and its effect runs checkSession, which makes the saved
\* session the current user; the dashboard of that user mounts and its effect
\* calls refreshData or loadData.  Without a saved session Auth comes up.
CheckSession(c) ==
  /\ proc[c] = Idle
  /\ LET user == getSession(localStorage)
         h == [failed |-> FALSE, fetchedAfterFailure |-> FALSE]
     IN /\ currentUser' = [currentUser EXCEPT ![c] = user]
        /\ isOfflineMode' = [isOfflineMode EXCEPT ![c] = FALSE]
        /\ auth' = [auth EXCEPT ![c] = InitAuth]
        /\ last' = [last EXCEPT ![c] = [op |-> "checkSession", user |-> user]]
        /\ IF user = Null
           THEN /\ proc' = proc
                /\ student' = [student EXCEPT ![c] = InitStudent(now)]
                /\ admin' = [admin EXCEPT ![c] = InitAdmin]
                /\ hist' = [hist EXCEPT ![c] = h]
                /\ localStorage' = localStorage
           ELSE IF user[1].role = ADMIN
           THEN /\ ThenRefreshData(c, InitAdmin, FALSE, localStorage, h)
                /\ student' = [student EXCEPT ![c] = InitStudent(now)]
           ELSE /\ proc' = [proc EXCEPT ![c] = [pc |-> "loadData", s |-> Null, b |-> Null,
                                                 after |-> "tab"]]
                /\ student' = [student EXCEPT ![c] = InitStudent(now)]
                /\ admin' = [admin EXCEPT ![c] = InitAdmin]
                /\ hist' = [hist EXCEPT ![c] = issued(h)]
                /\ localStorage' = localStorage
  /\ UNCHANGED <<clock, now>>

\* What is typed into the login form of the student's tab.
TypedInSession == [email |-> {DEMO_STUDENT.email}, password |-> {DEMO_STUDENT.password}]

\* Two tabs of one browser whose backend is down: the administrator signed in
\* in the second, then the demo student in the first, whose session is the one
\* saved.  The student's tab may be loaded again, and the student may sign out
\* and in; the administrator may block and unblock students.
InitSession ==
  /\ localStorage = [[k \in KeyNames |-> Null] EXCEPT
                       ![KEYS.USERS] = JSON_stringify(<<ADMIN_USER, DEMO_STUDENT>>),
                       ![KEYS.SEATS] = JSON_stringify(INITIAL_SEATS),
                       ![KEYS.CURRENT_USER] = JSON_stringify(DEMO_STUDENT)]
  /\ InitProcesses(InitAuth)
  /\ now = [day |-> 1, hour |-> 18, tz |-> 0]
  /\ currentUser = [tab1 |-> Some(DEMO_STUDENT), tab2 |-> Some(ADMIN_USER)]
  /\ student = [c \in Clients |-> InitStudent(now)]

NextSession ==
  \/ CheckSession("tab1")
  \/ HandleLogout("tab1")
  \/ \E name \in DOMAIN TypedInSession : \E value \in TypedInSession[name] :
       HandleChange("tab1", name, value)
  \/ HandleSubmit("tab1")
  \/ HandleSubmitContinue("tab1", 0)
  \/ \E tab \in {"overview", "students"} : SetActiveTab("tab2", tab)
  \/ \E i \in 1..Len(admin["tab2"].users) : HandleBlockUser("tab2", i)
  \/ UpdateUserFallback("tab2")
  \/ \E c \in Clients :
       \/ \E ans \in BackendDown : GetStoredUsersAnswer(c, ans)
       \/ \E ans \in BackendDown : GetStoredSeatsAnswer(c, ans)
       \/ \E ans \in BackendDown : GetStoredBookingsAnswer(c, ans)

SpecSession == InitSession /\ [][NextSession]_vars

\* ------------------------------------------------- Auth, the form's rules

\* What is typed into the fields of the form: for each field the validation
\* looks at, a value it accepts and one it refuses.
TypedInForm ==
  [email |-> {RAVI_FORM.email, <<"r", "a", "v", "i", "@", "x">>},
   password |-> {RAVI_FORM.password, <<"a", "b", "c">>},
   name |-> {RAVI_FORM.name, << >>},
   studentId |-> {RAVI_FORM.studentId, << >>},
   department |-> {RAVI_FORM.department, << >>},
   mobile |-> {RAVI_FORM.mobile, <<"9", "0", "0", "0", "0", "0", "0", "0", "1">>}]

\* One tab on the Auth screen in a browser whose store is empty, where somebody
\* filled in the registration form and went back to the login form.  The backend
\* is down.
InitForm ==
  /\ localStorage = [k \in KeyNames |-> Null]
  /\ InitProcesses([InitAuth EXCEPT !.formData = [RAVI_FORM EXCEPT !.email = << >>,
                                                                   !.password = << >>]])
  /\ now = [day |-> 1, hour |-> 18, tz |-> 0]
  /\ currentUser = [c \in Clients |-> Null]
  /\ student = [c \in Clients |-> InitStudent(now)]

NextForm ==
  \E c \in {"tab1"} :
    \/ AuthClicks(c, TypedInForm)
    \/ SwitchMode(c)
    \/ \E ans \in BackendDown : GetStoredUsersAnswer(c, ans)

SpecForm == InitForm /\ [][NextForm]_vars

\* ------------------------------------------------------ the layout editor

PickCells == {<<0, 0>>, <<4, 2>>, <<14, 9>>}
PickSeatsOfEditor == {<<"s-l1">>}

\* The administrator's tab, against a backend that may answer anything.
InitEditor ==
  /\ InitStore
  /\ now = [day |-> 1, hour |-> 18, tz |-> 0]
  /\ currentUser = [tab1 |-> Some(ADMIN_USER), tab2 |-> Null]
  /\ student = [c \in Clients |-> InitStudent(now)]

NextEditor ==
  \E c \in {"tab1"} :
    \/ \E tab \in {"overview", "seats"} : SetActiveTab(c, tab)
    \/ ToggleEditMode(c)
    \/ \E i \in 1..Len(admin[c].seats) :
         admin[c].seats[i].id \in PickSeatsOfEditor /\ HandleSeatInteraction(c, i)
    \/ \E cell \in PickCells, elapsed \in 0..1 :
         HandleEmptySlotClick(c, cell[1], cell[2], elapsed)
    \/ \E ans \in ReadAnswers(RemoteSeatsBodies) : GetStoredSeatsAnswer(c, ans)
    \/ \E ans \in ReadAnswers(RemoteUsersBodies) : GetStoredUsersAnswer(c, ans)
    \/ \E ans \in ReadAnswers(RemoteBookingsBodies) : GetStoredBookingsAnswer(c, ans)
    \/ \E ans \in MutationAnswers : ToggleSeatMaintenanceAnswer(c, ans)
    \/ ToggleSeatMaintenanceFallback(c)
    \/ \E k \in 1..MaxSavesInFlight, ans \in MutationAnswers : SaveSeatsAnswer(c, k, ans)

SpecEditor == InitEditor /\ [][NextEditor]_vars

\* ------------------------------------------------- the editor's toolbar

PickSeatsOfToolbar == {<<"s-l1">>}
PickTypes == {PC}
SaveAnswers == {Answer("neterr", 0, Null), Answer("response", 200, Null)}

\* The administrator's tab on the seats page: seats are selected in edit mode and
\* changed with the buttons of the toolbar, against a backend that may answer or
\* fail.
NextToolbar ==
  \E c \in {"tab1"} :
    \/ SetActiveTab(c, "seats")
    \/ ToggleEditMode(c)
    \/ \E i \in 1..Len(admin[c].seats) :
         /\ admin[c].isEditMode
         /\ admin[c].seats[i].id \in PickSeatsOfToolbar
         /\ HandleSeatInteraction(c, i)
    \/ \E type \in PickTypes : HandleChangeType(c, type)
    \/ HandleRotateSeat(c)
    \/ HandleDeleteSeat(c)
    \/ \E ans \in ReadAnswers(RemoteSeatsBodies) : GetStoredSeatsAnswer(c, ans)
    \/ \E ans \in ReadAnswers(RemoteUsersBodies) : GetStoredUsersAnswer(c, ans)
    \/ \E ans \in ReadAnswers(RemoteBookingsBodies) : GetStoredBookingsAnswer(c, ans)
    \/ \E k \in 1..MaxSavesInFlight, ans \in SaveAnswers : SaveSeatsAnswer(c, k, ans)

SpecToolbar == InitEditor /\ [][NextToolbar]_vars

\* ------------------------------------------------ two layout editors

\* Two tabs of one browser in which the administrator is signed in, while the
\* backend is down: both edit the layout kept in localStorage.  Seats are added
\* at the cells of PickCells, and the seats added are selected, moved and deleted.
InitCells ==
  /\ InitStore
  /\ now = [day |-> 1, hour |-> 18, tz |-> 0]
  /\ currentUser = [c \in Clients |-> Some(ADMIN_USER)]
  /\ student = [c \in Clients |-> InitStudent(now)]

NextCells ==
  \E c \in Clients :
    \/ SetActiveTab(c, "seats")
    \/ ToggleEditMode(c)
    \/ \E i \in 1..Len(admin[c].seats) :
         /\ admin[c].isEditMode
         /\ admin[c].seats[i].id[1] = "seat-"
         /\ HandleSeatInteraction(c, i)
    \/ \E cell \in PickCells, elapsed \in 0..1 :
         HandleEmptySlotClick(c, cell[1], cell[2], elapsed)
    \/ HandleDeleteSeat(c)
    \/ \E ans \in NetworkErrors : GetStoredSeatsAnswer(c, ans)
    \/ \E ans \in NetworkErrors : GetStoredUsersAnswer(c, ans)
    \/ \E ans \in NetworkErrors : GetStoredBookingsAnswer(c, ans)

SpecCells == InitCells /\ [][NextCells]_vars

\* ------------------------------------------- the store, backend failing

\* One tab, in which somebody registers as a student and books, or a student
\* who is signed in books and cancels, or the administrator works, so that each
\* operation of the store is called; the backend may answer or fail at any call.
InitFailing ==
  /\ localStorage = [k \in KeyNames |-> Null]
  /\ InitProcesses([InitAuth EXCEPT !.isLogin = FALSE, !.formData = RAVI_FORM])
  /\ now = [day |-> 1, hour |-> 18, tz |-> 0]
  /\ currentUser \in {[tab1 |-> u, tab2 |-> Null] :
                        u \in {Null, Some(DEMO_STUDENT), Some(ADMIN_USER)}}
  /\ student = [c \in Clients |-> InitStudent(now)]

NextFailing ==
  \E c \in {"tab1"} :
    \/ HandleSubmit(c)
    \/ \E elapsed \in 0..1 : HandleSubmitContinue(c, elapsed)
    \/ \E ans \in MutationAnswers : SaveUserAnswer(c, ans)
    \/ SaveUserFallback(c)
    \/ StudentClicks(c)
    \/ \E ans \in MutationAnswers : CreateBookingAnswer(c, ans)
    \/ CreateBookingFallback(c)
    \/ \E ans \in MutationAnswers : CancelBookingAnswer(c, ans)
    \/ CancelBookingFallback(c)
    \/ \E tab \in {"overview", "seats", "students"} : SetActiveTab(c, tab)
    \/ ToggleEditMode(c)
    \/ \E i \in 1..Len(admin[c].seats) :
         admin[c].seats[i].id \in PickSeatsOfEditor /\ HandleSeatInteraction(c, i)
    \/ \E ans \in MutationAnswers : ToggleSeatMaintenanceAnswer(c, ans)
    \/ ToggleSeatMaintenanceFallback(c)
    \/ HandleRotateSeat(c)
    \/ \E k \in 1..MaxSavesInFlight, ans \in SaveAnswers : SaveSeatsAnswer(c, k, ans)
    \/ \E i \in 1..Len(admin[c].users) : HandleBlockUser(c, i)
    \/ \E ans \in MutationAnswers : UpdateUserAnswer(c, ans)
    \/ UpdateUserFallback(c)
    \/ \E ans \in ReadAnswers(RemoteSeatsBodies) : GetStoredSeatsAnswer(c, ans)
    \/ \E ans \in ReadAnswers(RemoteUsersBodies) : GetStoredUsersAnswer(c, ans)
    \/ \E ans \in ReadAnswers(RemoteBookingsBodies) : GetStoredBookingsAnswer(c, ans)

SpecFailing == InitFailing /\ [][NextFailing]_vars

\* ------------------------------------ a student and the administrator

\* Two tabs of one browser while the backend is down: the demo student books
\* and cancels in the first, the administrator works on the seats of
\* PickSeatsOfEditor in the second, putting them under maintenance and back or,
\* in edit mode, deleting them.
InitDesk ==
  /\ InitStore
  /\ now = [day |-> 1, hour |-> 18, tz |-> 0]
  /\ currentUser = [tab1 |-> Some(DEMO_STUDENT), tab2 |-> Some(ADMIN_USER)]
  /\ student = [c \in Clients |-> InitStudent(now)]

NextDesk ==
  \/ StudentClicks("tab1")
  \/ CreateBookingFallback("tab1")
  \/ CancelBookingFallback("tab1")
  \/ SetActiveTab("tab2", "seats")
  \/ ToggleEditMode("tab2")
  \/ \E i \in 1..Len(admin["tab2"].seats) :
       admin["tab2"].seats[i].id \in PickSeatsOfEditor /\ HandleSeatInteraction("tab2", i)
  \/ ToggleSeatMaintenanceFallback("tab2")
  \/ HandleDeleteSeat("tab2")
  \/ \E c \in Clients :
       \/ \E ans \in NetworkErrors : GetStoredSeatsAnswer(c, ans)
       \/ \E ans \in NetworkErrors : GetStoredUsersAnswer(c, ans)
       \/ \E ans \in NetworkErrors : GetStoredBookingsAnswer(c, ans)

SpecDesk == InitDesk /\ [][NextDesk]_vars

\* ------------------------------------- the store, local data behind

\* As before, in a browser where the administrator once worked offline and
\* deleted the seat L1: its localStorage holds the layout without that seat and
\* nothing else, while the backend has the built-in layout, a blocked student
\* and perhaps a booking.
InitStale ==
  /\ localStorage = [[k \in KeyNames |-> Null] EXCEPT
                       ![KEYS.SEATS] = JSON_stringify(Tail(INITIAL_SEATS))]
  /\ InitProcesses([InitAuth EXCEPT !.isLogin = FALSE, !.formData = RAVI_FORM])
  /\ now = [day |-> 1, hour |-> 18, tz |-> 0]
  /\ currentUser \in {[tab1 |-> u, tab2 |-> Null] :
                        u \in {Null, Some(DEMO_STUDENT), Some(ADMIN_USER)}}
  /\ student = [c \in Clients |-> InitStudent(now)]

SpecStale == InitStale /\ [][NextFailing]_vars

\* ------------------------------------------- the backend stalls

\* safeFetch returns as soon as fetch resolves, which is when the status line and
\* the headers of the response are in, and clears its timer then; the read goes
\* on with await res.json(), which waits for the body.  The reads of tab c that
\* are at that await:
awaitingBody(c) == IF "body" \in DOMAIN proc[c] THEN proc[c].body ELSE {}

\* The response to the GET of the read called slot ("s": seats, "b": bookings)
\* begins, with a status below 500: clearTimeout(id), return response.
GetStoredResponse(c, slot) ==
  /\ proc[c].pc \in {"loadData", "refreshData"}
  /\ slot \in {"s", "b"}
  /\ proc[c][slot] = Null
  /\ slot \notin awaitingBody(c)
  /\ proc' = [proc EXCEPT ![c] =
                [f \in DOMAIN proc[c] \cup {"body"} |->
                   IF f = "body" THEN awaitingBody(c) \cup {slot} ELSE proc[c][f]]]
  /\ UNCHANGED <<localStorage, isOfflineMode, clock, now, currentUser, student, auth, admin,
                 hist, last>>

\* The body of that response is in and res.json() gives it.
GetStoredBody(c, slot, body) ==
  /\ slot \in awaitingBody(c)
  /\ Settle(c, [proc[c] EXCEPT !.body = @ \ {slot}, ![slot] = Some(body)])
  /\ UNCHANGED <<localStorage, isOfflineMode, clock, now, currentUser, auth, hist, last>>

\* The timer of a safeFetch whose fetch has not resolved fires after 3000 ms:
\* controller.abort().
TimerFires(c) ==
  \/ "s" \notin awaitingBody(c) /\ GetStoredSeatsAnswer(c, Answer("abort", 0, Null))
  \/ "b" \notin awaitingBody(c) /\ GetStoredBookingsAnswer(c, Answer("abort", 0, Null))
  \/ CreateBookingAnswer(c, Answer("abort", 0, Null))
  \/ CancelBookingAnswer(c, Answer("abort", 0, Null))

\* A store operation that is at its fallback branch goes on by itself.
FallbackContinues(c) == CreateBookingFallback(c) \/ CancelBookingFallback(c)

\* A student's tab against a backend that answers, answers in part, or does not
\* answer at all.
NextStall ==
  \E c \in {"tab1"} :
    \/ StudentClicks(c)
    \/ \E slot \in {"s", "b"} : GetStoredResponse(c, slot)
    \/ \E body \in RemoteSeatsBodies : GetStoredBody(c, "s", body)
    \/ \E body \in RemoteBookingsBodies : GetStoredBody(c, "b", body)
    \/ \E ans \in ReadAnswers(RemoteSeatsBodies) :
         "s" \notin awaitingBody(c) /\ GetStoredSeatsAnswer(c, ans)
    \/ \E ans \in ReadAnswers(RemoteBookingsBodies) :
         "b" \notin awaitingBody(c) /\ GetStoredBookingsAnswer(c, ans)
    \/ \E ans \in MutationAnswers : CreateBookingAnswer(c, ans)
    \/ CreateBookingFallback(c)
    \/ \E ans \in MutationAnswers : CancelBookingAnswer(c, ans)
    \/ CancelBookingFallback(c)

\* The timers and the continuations run; nothing obliges the backend or the
\* student.
SpecStall ==
  /\ Init
  /\ [][NextStall]_vars
  /\ WF_vars(TimerFires("tab1"))
  /\ WF_vars(FallbackContinues("tab1"))

\* ------------------------------------------------------------------ claims

\* The bookings collection of the fallback store.
storedBookings == getStoredBookingsFallback(localStorage).ret

sameSlot(a, b) == a.date = b.date /\ a.startTime = b.startTime

\* C1: under every interleaving of createBooking and cancelBooking calls, no two
\* ACTIVE records of the bookings collection share (seatId, date, startTime).
C1_NoTwoActiveOnSeatSlot ==
  \A i, j \in 1..Len(storedBookings) :
    (/\ i # j
     /\ storedBookings[i].status = "ACTIVE"
     /\ storedBookings[j].status = "ACTIVE"
     /\ storedBookings[i].seatId = storedBookings[j].seatId)
    => ~sameSlot(storedBookings[i], storedBookings[j])

\* C1's case: a createBooking was refused by the conflict check while the seat
\* and slot it asked for are held by an ACTIVE booking.
C1_Witness ==
  \E c \in Clients :
    /\ last[c].op = "createBooking"
    /\ last[c].local
    /\ ~last[c].ret
    /\ \E i \in 1..Len(storedBookings) : storedBookings[i].status = "ACTIVE"

\* C2: once a remote call of a tab has failed, its offline flag is set and is never
\* reset, and no store operation of the tab issues a remote request any more.
C2_OfflineIsSticky ==
  /\ [](\A c \in Clients : hist[c].failed => isOfflineMode[c] /\ ~hist[c].fetchedAfterFailure)
  /\ [][\A c \in Clients : isOfflineMode[c] => isOfflineMode'[c]]_vars

\* C2's case: after a failed remote call, a store operation that issued no request
\* has completed against localStorage.
C2_Witness ==
  \E c \in Clients :
    /\ hist[c].failed
    /\ last[c].op \in {"createBooking", "cancelBooking"}
    /\ last[c].local
    /\ ~last[c].fetched

\* C3: no two ACTIVE bookings share (userId, date, startTime).
C3_OneActivePerUserSlot ==
  \A i, j \in 1..Len(storedBookings) :
    (/\ i # j
     /\ storedBookings[i].status = "ACTIVE"
     /\ storedBookings[j].status = "ACTIVE"
     /\ storedBookings[i].userId = storedBookings[j].userId)
    => ~sameSlot(storedBookings[i], storedBookings[j])

\* The bookings collection after cancelBooking(bookingId) in the fallback store.
afterCancel(bookings, bookingId) ==
  LET write == cancelBookingFallback(bookings, bookingId)
  IN IF write # Null THEN JSON_parse(write[1]) ELSE bookings

bookingIds == {storedBookings[i].id : i \in 1..Len(storedBookings)}

cancelBookingWrites(c) ==
  proc[c].pc = "cancelBooking:fallback" /\ proc'[c].pc # "cancelBooking:fallback"

\* C9: for a booking date equal to the current calendar day the slots offered are
\* exactly those of the 12 hourly slots 08:00..19:00 whose start hour is strictly
\* greater than the current local hour; for any future date all 12 are offered.
\* (selectedDate is the calendar day its 'yyyy-MM-dd' string names.)
C9_SlotsOfTodayAndLater ==
  \A c \in Clients :
    currentUser[c] # Null =>
      LET offered == getAvailableTimeSlots(student[c].selectedDate, now) IN
        /\ student[c].selectedDate = now.day =>
             offered = SelectSeq(ALL_TIME_SLOTS, LAMBDA hourInt : hourInt > now.hour)
        /\ student[c].selectedDate > now.day => offered = ALL_TIME_SLOTS

\* C7: cancelBooking(id) on a booking that is already CANCELLED leaves it CANCELLED,
\* and the collection after two cancelBooking(id) calls equals the one after one.
C7_CancelIsIdempotent ==
  /\ [](\A id \in bookingIds :
          LET once == afterCancel(storedBookings, id)
              twice == afterCancel(once, id)
          IN /\ twice = once
             /\ \A i \in 1..Len(once) :
                  storedBookings[i].id = id /\ storedBookings[i].status = "CANCELLED"
                    => once[i].status = "CANCELLED")
  /\ [][\A c \in Clients :
          (/\ cancelBookingWrites(c)
           /\ \E i \in 1..Len(proc[c].bookings) :
                /\ i = FindIndex(proc[c].bookings, LAMBDA b : b.id = proc[c].bookingId, 1)
                /\ proc[c].bookings[i].status = "CANCELLED")
          => storedBookings' = proc[c].bookings]_vars

\* C7's case: a cancelBooking has run on a booking that was CANCELLED already.
C7_Witness ==
  \E c \in Clients :
    /\ last[c].op = "cancelBooking"
    /\ last[c].local
    /\ last[c].before = "CANCELLED"

\* The collection grows only by ACTIVE bookings, keeps every record in its place,
\* and changes a record only by turning its status from ACTIVE to CANCELLED.
bookingsEvolve(old, new) ==
  /\ Len(new) >= Len(old)
  /\ \A i \in 1..Len(old) :
       \/ new[i] = old[i]
       \/ old[i].status = "ACTIVE" /\ new[i] = [old[i] EXCEPT !.status = "CANCELLED"]
  /\ \A i \in (Len(old) + 1)..Len(new) : new[i].status = "ACTIVE"

bookingsWriteBy(c) ==
  /\ proc[c].pc \in {"createBooking:fallback", "cancelBooking:fallback"}
  /\ proc'[c].pc # proc[c].pc

storedUsers == getStoredUsersFallback(localStorage).ret

\* C4: a registration whose email is already that of a user of the collection it
\* read ends with the duplicate-account error; it does not call saveUser (no
\* request is issued, nothing is written), the tab stays signed out, and the
\* store is as before.
C4_DuplicateEmailRefused ==
  [][\A c \in Clients :
       (/\ proc[c].pc = "handleSubmit:users"
        /\ proc'[c] # proc[c]
        /\ ~proc[c].isLogin
        /\ \E i \in 1..Len(proc[c].users) : proc[c].users[i].email = proc[c].formData.email)
       => /\ auth'[c].error = DUPLICATE_ERROR
          /\ ~auth'[c].isLoading
          /\ proc'[c] = Idle
          /\ hist'[c] = hist[c]
          /\ currentUser'[c] = Null
          /\ localStorage' = localStorage
          /\ storedUsers' = storedUsers]_vars

\* C4's case: a registration has been refused as a duplicate.
C4_Witness ==
  \E c \in Clients : ~auth[c].isLogin /\ auth[c].error = DUPLICATE_ERROR

\* C5: no two users of the stored collection have the same email, whatever the
\* registrations and however two tabs interleave them.
C5_EmailsUnique ==
  \A i, j \in 1..Len(storedUsers) :
    storedUsers[i].email = storedUsers[j].email => i = j

\* C6: a login whose email and password are exactly those of a stored user who
\* is blocked ends with the blocked-account error, which is not the
\* invalid-credentials one, and does not call onLogin; onLogin is called only
\* with a user of the collection who has exactly that email and password and
\* is not blocked.
C6_BlockedLoginRefused ==
  [][\A c \in Clients :
       (/\ proc[c].pc = "handleSubmit:users"
        /\ proc'[c] # proc[c]
        /\ proc[c].isLogin)
       => LET users == proc[c].users
              matching == {i \in 1..Len(users) :
                             /\ users[i].email = proc[c].formData.email
                             /\ users[i].password = proc[c].formData.password}
          IN /\ BLOCKED_ERROR # INVALID_ERROR
             /\ (\E i \in matching : users[i].isBlocked)
                  => /\ auth'[c].error = BLOCKED_ERROR
                     /\ currentUser'[c] = Null
             /\ currentUser'[c] # Null
                  => \E i \in matching : ~users[i].isBlocked /\ currentUser'[c] = Some(users[i])]_vars

RECURSIVE parseDecimal(_)
\* The number a sequence of digit code units writes.
parseDecimal(digits) ==
  IF digits = << >> THEN 0
  ELSE 10 * parseDecimal(SubSeq(digits, 1, Len(digits) - 1)) + (digits[Len(digits)] - 48)

\* The label of cell (x, y): the letter 'A' + y, then the number x + 1 in decimal.
isLabelOf(label, x, y) ==
  /\ Len(label) >= 2
  /\ label[1] = 65 + y
  /\ \A i \in 2..Len(label) : label[i] \in 48..57
  /\ label[2] # 48
  /\ parseDecimal(Tail(label)) = x + 1

\* C10: a seat added or moved through the layout editor to cell (x, y) has, in the
\* editor and in what is saved, that position and the label 'A' + y followed by
\* x + 1: "A1" at (0, 0), "C5" at (4, 2).  The seat added is the one appended;
\* the seats moved are those with the id of the selected seat.
C10_LabelOfCell ==
  [][\A c \in Clients :
       (last'[c] # last[c] /\ last'[c].op = "handleEmptySlotClick")
       => LET e == last'[c]
              placed(seats) == IF e.isMove
                               THEN {i \in 1..Len(seats) : seats[i].id = e.id}
                               ELSE {Len(seats)}
          IN /\ admin'[c].seats = e.saved
             /\ placed(e.saved) # {}
             /\ \A i \in placed(e.saved) :
                  /\ e.saved[i].x = e.x
                  /\ e.saved[i].y = e.y
                  /\ isLabelOf(e.saved[i].label, e.x, e.y)
                  /\ (e.x = 0 /\ e.y = 0) => e.saved[i].label = <<65, 49>>
                  /\ (e.x = 4 /\ e.y = 2) => e.saved[i].label = <<67, 53>>]_vars

\* C10's case: one seat has been created and another moved, to (0, 0) and (4, 2),
\* and the layout saved to the store.
C10_Witness ==
  \E c \in Clients :
    /\ last[c].op = "handleEmptySlotClick"
    /\ localStorage[KEYS.SEATS] # Null
    /\ LET seats == JSON_parse(localStorage[KEYS.SEATS])
       IN \E i, j \in 1..Len(seats) :
            /\ seats[i].id = <<"s-l1">> /\ seats[i].x = 4 /\ seats[i].y = 2
            /\ seats[i].label = <<67, 53>>
            /\ seats[j].id[1] = "seat-" /\ seats[j].x = 0 /\ seats[j].y = 0
            /\ seats[j].label = <<65, 49>>

\* C11: each click on Rotate adds 90 modulo 360 to the rotation the selected seat
\* has in the layout the editor shows and saves, and the fourth click in a row on
\* one seat brings that rotation back to what it was before the first.
C11_FourRotationsReturn ==
  [][\A c \in Clients :
       (last'[c] # last[c] /\ last'[c].op = "handleRotateSeat")
       => LET e == last'[c]
              rotated == {i \in 1..Len(e.saved) : e.saved[i].id = e.id}
          IN /\ e.before # Null
             /\ rotated # {}
             /\ \A i \in rotated :
                  /\ e.saved[i].rotation = (e.before[1] + 90) % 360
                  /\ e.times = 4 => e.saved[i].rotation = e.original[1]]_vars

createBookingReturns(c) ==
  /\ proc[c].pc \in {"createBooking:fetch", "createBooking:fallback"}
  /\ proc'[c].pc \notin {"createBooking:fetch", "createBooking:fallback"}

\* C14: the fallback createBooking, for a (seatId, date, startTime) that an ACTIVE
\* booking of the collection it read occupies, returns false and writes nothing;
\* otherwise it returns true and the collection becomes the one it read with
\* exactly the given booking appended.
C14_CreateBookingFallback ==
  [][\A c \in Clients :
       (proc[c].pc = "createBooking:fallback" /\ createBookingReturns(c))
       => LET read == proc[c].bookings
              given == proc[c].booking
              occupied == \E i \in 1..Len(read) :
                            /\ read[i].status = "ACTIVE"
                            /\ read[i].seatId = given.seatId
                            /\ read[i].date = given.date
                            /\ read[i].startTime = given.startTime
          IN /\ last'[c].op = "createBooking"
             /\ last'[c].ret \in BOOLEAN
             /\ IF occupied
                THEN /\ last'[c].ret = FALSE
                     /\ localStorage'[KEYS.BOOKINGS] = localStorage[KEYS.BOOKINGS]
                ELSE /\ last'[c].ret = TRUE
                     /\ localStorage'[KEYS.BOOKINGS] # Null
                     /\ localStorage'[KEYS.BOOKINGS][1] = read \o <<given>>]_vars

\* C14's case: of two students' createBooking for one seat and slot, one has
\* returned true and the other false, and the collection holds one booking.
C14_Witness ==
  \E c, d \in Clients :
    /\ last[c].op = "createBooking" /\ last[c].local /\ last[c].ret
    /\ last[d].op = "createBooking" /\ last[d].local /\ ~last[d].ret
    /\ Len(storedBookings) = 1
    /\ storedBookings[1].status = "ACTIVE"

\* C15 as stated: a createBooking whose request got a response returns true exactly
\* when the status is 201, and for any other status returns false and records no
\* booking.
C15_AsStated ==
  [][\A c \in Clients :
       (/\ createBookingReturns(c)
        /\ last'[c].answer # Null
        /\ last'[c].answer[1].kind = "response")
       => /\ last'[c].ret = (last'[c].answer[1].status = 201)
          /\ localStorage'[KEYS.BOOKINGS] = localStorage[KEYS.BOOKINGS]]_vars

\* C15: a createBooking whose request got a response with a status below 500
\* returns true exactly when the status is 201, returns false for any other such
\* status, and records no booking in localStorage.
C15_Below500 ==
  [][\A c \in Clients :
       (/\ createBookingReturns(c)
        /\ last'[c].answer # Null
        /\ last'[c].answer[1].kind = "response"
        /\ last'[c].answer[1].status < 500)
       => /\ last'[c].ret = (last'[c].answer[1].status = 201)
          /\ ~last'[c].local
          /\ localStorage'[KEYS.BOOKINGS] = localStorage[KEYS.BOOKINGS]]_vars

\* C15's case: a createBooking was answered with 409 and has returned false, and
\* no booking is recorded.
C15_Witness ==
  \E c \in Clients :
    /\ last[c].op = "createBooking"
    /\ last[c].answer = Some(Answer("response", 409, Null))
    /\ ~last[c].ret
    /\ storedBookings = << >>

\* The seats collection of the fallback store.
storedSeats == getStoredSeatsFallback(localStorage).ret

\* The first remote call of tab c that fails is answered in this step.
firstFailure(c) == ~isOfflineMode[c] /\ isOfflineMode'[c]

\* The read of loadData or refreshData that has just failed was served from
\* localStorage: its slot holds the local collection, or, when it was the last
\* one in, the dashboard shows the local collection.
readServedLocally(c) ==
  LET p == proc[c]
      slots == IF p.pc = "loadData" THEN {"s", "b"} ELSE {"s", "u", "b"}
      local(slot) == CASE slot = "s" -> storedSeats
                       [] slot = "u" -> storedUsers
                       [] slot = "b" -> storedBookings
      shown(slot) == IF p.pc = "loadData"
                     THEN (IF slot = "s" THEN student'[c].seats ELSE student'[c].bookings)
                     ELSE (CASE slot = "s" -> admin'[c].seats
                             [] slot = "u" -> admin'[c].users
                             [] slot = "b" -> admin'[c].bookings)
  IN IF proc'[c].pc = p.pc
     THEN \E slot \in slots : p[slot] = Null /\ proc'[c][slot] = Some(local(slot))
     ELSE /\ proc'[c] = Idle
          /\ \A slot \in slots : p[slot] = Null => shown(slot) = local(slot)

\* C13: when the remote call of a store operation fails (network error, abort,
\* status 500 or more), the operation goes on against localStorage and returns
\* to its caller: a read returns the local collection, a mutation reads the
\* local collection and writes its change to it, the handler that awaited the
\* operation carries on, and the connection error of Auth's catch never shows.
C13_FailureFallsBack ==
  [][\A c \in Clients :
       LET p == proc[c]
           first(seq, id) == {i \in 1..Len(seq) :
                               seq[i].id = id /\ \A j \in 1..(i - 1) : seq[j].id # id}
       IN /\ auth'[c].error # CONNECTION_ERROR
          /\ (firstFailure(c) /\ p.pc \in {"loadData", "refreshData"})
               => readServedLocally(c)
          /\ (firstFailure(c) /\ p.pc = "handleSubmit:fetch")
               => proc'[c].pc = "handleSubmit:users" /\ proc'[c].users = storedUsers
          /\ (firstFailure(c) /\ p.pc = "saveUser:fetch")
               => proc'[c].pc = "saveUser:fallback" /\ proc'[c].users = storedUsers
          /\ (firstFailure(c) /\ p.pc = "updateUser:fetch")
               => proc'[c].pc = "updateUser:fallback" /\ proc'[c].users = storedUsers
          /\ (firstFailure(c) /\ p.pc = "toggleSeatMaintenance:fetch")
               => proc'[c].pc = "toggleSeatMaintenance:fallback" /\ proc'[c].seats = storedSeats
          /\ (firstFailure(c) /\ p.pc = "createBooking:fetch")
               => proc'[c].pc = "createBooking:fallback" /\ proc'[c].bookings = storedBookings
          /\ (firstFailure(c) /\ p.pc = "cancelBooking:fetch")
               => proc'[c].pc = "cancelBooking:fallback" /\ proc'[c].bookings = storedBookings
          /\ (firstFailure(c) /\ p.pc = "saveSeats:fetch")
               => /\ localStorage'[KEYS.SEATS] # Null
                  /\ \E k \in 1..Len(p.calls) : storedSeats' = p.calls[k].seats
          /\ (p.pc = "saveUser:fallback" /\ proc'[c] # p)
               => /\ storedUsers' = p.users \o <<p.user>>
                  /\ currentUser'[c] = Some(p.user)
          /\ (p.pc = "updateUser:fallback" /\ proc'[c] # p)
               => /\ Len(storedUsers') = Len(p.users)
                  /\ \A i \in 1..Len(p.users) :
                       storedUsers'[i] = IF i \in first(p.users, p.updatedUser.id)
                                         THEN p.updatedUser ELSE p.users[i]
                  /\ proc'[c] = Idle
                  /\ admin'[c].users = storedUsers'
          /\ (p.pc = "toggleSeatMaintenance:fallback" /\ proc'[c] # p)
               => /\ Len(storedSeats') = Len(p.seats)
                  /\ \A i \in 1..Len(p.seats) :
                       storedSeats'[i] = IF i \in first(p.seats, p.seatId)
                                         THEN [p.seats[i] EXCEPT !.isMaintenance = ~@]
                                         ELSE p.seats[i]
                  /\ proc'[c] = Idle
                  /\ admin'[c].seats = storedSeats'
          /\ (p.pc = "cancelBooking:fallback" /\ proc'[c] # p)
               => /\ Len(storedBookings') = Len(p.bookings)
                  /\ \A i \in 1..Len(p.bookings) :
                       storedBookings'[i] = IF i \in first(p.bookings, p.bookingId)
                                            THEN [p.bookings[i] EXCEPT !.status = "CANCELLED"]
                                            ELSE p.bookings[i]
                  /\ proc'[c] = Idle
                  /\ student'[c].bookings = storedBookings'
          /\ (p.pc = "createBooking:fallback" /\ proc'[c] # p)
               => /\ last'[c].ret \in BOOLEAN
                  /\ proc'[c] = Idle
                  /\ last'[c].ret => student'[c].bookings = storedBookings']_vars

\* C13's case: a remote call of the administrator's tab has failed, and a
\* student is blocked in the users collection of localStorage.
C13_Witness ==
  \E c \in Clients :
    /\ hist[c].failed
    /\ isAdminTab(c)
    /\ localStorage[KEYS.USERS] # Null
    /\ \E i \in 1..Len(storedUsers) :
         storedUsers[i].role = STUDENT /\ storedUsers[i].isBlocked

\* The users of the fallback store whose role is ADMIN.
storedAdmins == {storedUsers[i] : i \in {j \in 1..Len(storedUsers) : storedUsers[j].role = ADMIN}}

\* C16: the user a registration hands to saveUser has role STUDENT and
\* isBlocked false, and the users of the store with role ADMIN are the seeded
\* administrator and nobody else, whatever was registered, whoever signed in
\* and whoever was blocked or unblocked.
C16_OnlySeededAdmin ==
  /\ \A c \in Clients :
       proc[c].pc \in {"saveUser:fetch", "saveUser:fallback"}
       => proc[c].user.role = STUDENT /\ ~proc[c].user.isBlocked
  /\ \A c \in Clients :
       (last[c].op = "handleBlockUser" /\ proc[c].pc \in {"updateUser:fetch", "updateUser:fallback"})
       => proc[c].updatedUser.role = STUDENT
  /\ {u.id : u \in storedAdmins} = {ADMIN_USER.id}
  /\ \A i \in 1..Len(storedUsers) :
       storedUsers[i].id[1] = "user-" => storedUsers[i].role = STUDENT

\* C16's case: two registrations are stored, the administrator has signed in
\* and has blocked one of the registered users.
C16_Witness ==
  /\ localStorage[KEYS.USERS] # Null
  /\ \E c \in Clients : isAdminTab(c)
  /\ \E i, j \in 1..Len(storedUsers) :
       /\ i # j
       /\ storedUsers[i].id[1] = "user-" /\ storedUsers[i].isBlocked
       /\ storedUsers[j].id[1] = "user-" /\ ~storedUsers[j].isBlocked

\* C17: handleBlockUser called with a user whose role is ADMIN starts no store
\* operation and writes nothing, and no user with role ADMIN is ever blocked,
\* in the store or in an administrator's table.
C17_AdminNeverBlocked ==
  [][/\ \A c \in Clients :
          (last'[c] # last[c] /\ last'[c].op = "handleBlockUser"
             /\ last'[c].targetUser.role = ADMIN)
          => UNCHANGED <<localStorage, proc, hist, admin, isOfflineMode>>
     /\ \A u \in storedAdmins' : ~u.isBlocked
     /\ \A c \in Clients : \A i \in 1..Len(admin'[c].users) :
          admin'[c].users[i].role = ADMIN => ~admin'[c].users[i].isBlocked]_vars

\* C17's case: the last thing an administrator did was handleBlockUser on the
\* administrator's own row, after a student had been blocked.
C17_Witness ==
  \E c \in Clients :
    /\ last[c].op = "handleBlockUser"
    /\ last[c].targetUser.role = ADMIN
    /\ proc[c] = Idle
    /\ \E i \in 1..Len(storedUsers) : storedUsers[i].isBlocked

\* The messages of validateForm.
ValidationErrors ==
  {EMAIL_ERROR, PASSWORD_ERROR, NAME_ERROR, STUDENT_ID_ERROR, DEPARTMENT_ERROR, MOBILE_ERROR}

\* The form of tab c breaks one of the rules: the email is no address, the
\* password has fewer than 4 characters, or, on registration, the name, the
\* student id or the department is empty or the mobile is not 10 digits.
formIsInvalid(c) ==
  LET formData == auth[c].formData
  IN \/ ~emailRegexTest(formData.email)
     \/ Len(formData.password) < 4
     \/ /\ ~auth[c].isLogin
        /\ \/ formData.name = << >>
           \/ formData.studentId = << >>
           \/ formData.department = << >>
           \/ ~(Len(formData.mobile) = 10 /\ \A i \in 1..10 : formData.mobile[i] \in Digits)

\* No tab other than c moves in this step.
othersStill(c) ==
  \A d \in Clients \ {c} :
    /\ auth'[d] = auth[d] /\ proc'[d] = proc[d] /\ currentUser'[d] = currentUser[d]
    /\ hist'[d] = hist[d] /\ isOfflineMode'[d] = isOfflineMode[d]
    /\ admin'[d] = admin[d] /\ student'[d] = student[d] /\ last'[d] = last[d]

\* C18: while the form of a tab on the Auth screen breaks a rule, no step of
\* the tab starts a store operation, writes to the store or signs anybody in,
\* and the step in which a message of validateForm comes up is such a step.
C18_InvalidFormStaysLocal ==
  [][\A c \in Clients :
       /\ (currentUser[c] = Null /\ proc[c] = Idle /\ formIsInvalid(c) /\ othersStill(c))
            => /\ proc'[c] = Idle
               /\ hist'[c] = hist[c]
               /\ localStorage' = localStorage
               /\ currentUser'[c] = Null
               /\ isOfflineMode'[c] = isOfflineMode[c]
       /\ (auth'[c].error \in ValidationErrors /\ auth'[c].error # auth[c].error)
            => /\ formIsInvalid(c)
               /\ UNCHANGED <<localStorage, proc, hist, currentUser, isOfflineMode>>]_vars

\* C18's case: a registration with an empty department was submitted after a
\* registration had gone through, and the message is up.
C18_Witness ==
  \E c \in Clients :
    /\ auth[c].error = DEPARTMENT_ERROR
    /\ ~auth[c].isLogin
    /\ proc[c] = Idle
    /\ localStorage[KEYS.USERS] # Null

\* C19: the rotation of every seat is 0, 90, 180 or 270: of the seats stored
\* under the seats key, and of the seats every dashboard holds.
C19_QuarterTurns ==
  LET quarter(seats) == \A i \in 1..Len(seats) : seats[i].rotation \in {0, 90, 180, 270}
  IN /\ localStorage[KEYS.SEATS] # Null => quarter(JSON_parse(localStorage[KEYS.SEATS]))
     /\ \A c \in Clients : quarter(admin[c].seats) /\ quarter(student[c].seats)

\* C20: no two seats of a collection are in the same cell of the grid: of the
\* seats stored under the seats key, and of the seats every editor holds.
C20_OneSeatPerCell ==
  LET apart(seats) == \A i, j \in 1..Len(seats) :
                        (seats[i].x = seats[j].x /\ seats[i].y = seats[j].y) => i = j
  IN /\ localStorage[KEYS.SEATS] # Null => apart(JSON_parse(localStorage[KEYS.SEATS]))
     /\ \A c \in Clients : apart(admin[c].seats)

\* C21: every handler that has called a store operation gets its result: the
\* tab that is waiting for the store is eventually waiting for nothing, whether
\* the backend answers, fails, or never answers.
C21_EveryOperationCompletes ==
  \A c \in Clients : (proc[c] # Idle) ~> (proc[c] = Idle)

\* C22: the read of the bookings that loadData starts after createBooking has
\* returned true returns a collection that holds the booking created, when the
\* read is the first remote call of the tab to fail and when the tab had gone
\* to localStorage before.
C22_ReadSeesWrite ==
  [][\A c \in Clients :
       LET p == proc[c]
           read == IF proc'[c] = Idle THEN student'[c].bookings ELSE proc'[c].b[1]
           holds(id) == \E i \in 1..Len(read) : read[i].id = id
       IN /\ (/\ p.pc = "loadData" /\ p.after = "book" /\ p.b = Null
               /\ firstFailure(c)
               /\ (proc'[c] = Idle \/ proc'[c].b # Null))
             => holds(last[c].id)
          /\ (p.pc = "createBooking:fallback" /\ proc'[c] = Idle /\ last'[c].ret)
             => holds(last'[c].id)]_vars

\* The handlers of the layout editor that save the seats.
SeatEdits == {"handleEmptySlotClick", "handleChangeType", "handleRotateSeat", "handleDeleteSeat"}

\* C23: a save of the seats by an editor that works on localStorage leaves
\* under the seats key exactly the seats that editor passed to saveSeats,
\* whatever another editor had stored there before, and no handler is left
\* hanging.
C23_LastSaveWins ==
  [][\A c \in Clients :
       (last'[c] # last[c] /\ last'[c].op \in SeatEdits /\ isOfflineMode[c])
       => /\ localStorage'[KEYS.SEATS] = JSON_stringify(last'[c].saved)
          /\ proc'[c] = Idle
          /\ isOfflineMode'[c]]_vars

\* C23's case: both editors loaded the built-in layout and each added one seat,
\* the first at one cell and the second at another; the seats stored are the
\* second editor's, and no seat is stored at the first editor's cell.
C23_Witness ==
  LET e == last["tab1"]
      f == last["tab2"]
  IN /\ e.op = "handleEmptySlotClick" /\ ~e.isMove
     /\ f.op = "handleEmptySlotClick" /\ ~f.isMove
     /\ Len(e.saved) = Len(INITIAL_SEATS) + 1
     /\ Len(f.saved) = Len(INITIAL_SEATS) + 1
     /\ <<e.x, e.y>> # <<f.x, f.y>>
     /\ localStorage[KEYS.SEATS] = JSON_stringify(f.saved)
     /\ seatAt(storedSeats, e.x, e.y) = 0
     /\ seatAt(admin["tab1"].seats, e.x, e.y) # 0

\* The read called slot of the refreshData of tab c ends in this step.
readEnds(c, slot) ==
  /\ proc[c].pc = "refreshData"
  /\ proc[c][slot] = Null
  /\ proc'[c] = Idle \/ proc'[c][slot] # Null

\* What that read returned.
readReturned(c, slot) ==
  IF proc'[c] # Idle THEN proc'[c][slot][1]
  ELSE CASE slot = "s" -> admin'[c].seats
         [] slot = "u" -> admin'[c].users
         [] slot = "b" -> admin'[c].bookings

\* C24: a read that falls back to localStorage returns the blob stored under
\* its key and leaves it as it is; when there is none, a read of the users
\* stores and returns the administrator and the demo student, a read of the
\* seats stores and returns the built-in layout, and a read of the bookings
\* returns the empty list and stores nothing.
C24_SeedOnceThenStored ==
  [][\A c \in Clients :
       LET seedOf(key) == IF key = KEYS.USERS THEN <<ADMIN_USER, DEMO_STUDENT>>
                          ELSE INITIAL_SEATS
           seeding(slot, key) ==
             readEnds(c, slot)
             => IF localStorage[key] = Null
                THEN /\ readReturned(c, slot) = seedOf(key)
                     /\ localStorage'[key] = <<seedOf(key)>>
                ELSE /\ readReturned(c, slot) = localStorage[key][1]
                     /\ localStorage'[key] = localStorage[key]
       IN /\ seeding("s", KEYS.SEATS)
          /\ seeding("u", KEYS.USERS)
          /\ readEnds(c, "b")
             => /\ localStorage'[KEYS.BOOKINGS] = localStorage[KEYS.BOOKINGS]
                /\ readReturned(c, "b") = IF localStorage[KEYS.BOOKINGS] = Null THEN << >>
                                          ELSE localStorage[KEYS.BOOKINGS][1]]_vars

\* C24's case: the first editor's read seeded the layout and that editor stored
\* a layout with one seat more; the second editor's reads are in, and it holds
\* the stored layout, the administrator and the demo student, and no bookings.
C24_Witness ==
  /\ localStorage[KEYS.SEATS] # Null
  /\ localStorage[KEYS.BOOKINGS] = Null
  /\ Len(localStorage[KEYS.SEATS][1]) = Len(INITIAL_SEATS) + 1
  /\ admin["tab1"].seats = localStorage[KEYS.SEATS][1]
  /\ admin["tab2"].seats = localStorage[KEYS.SEATS][1]
  /\ admin["tab2"].users = <<ADMIN_USER, DEMO_STUDENT>>
  /\ admin["tab2"].bookings = << >>
  /\ last["tab2"].op = "setActiveTab"
  /\ proc["tab2"] = Idle

\* The indexes of the first record of seq whose id is id (none, or one).
firstWithId(seq, id) ==
  {i \in 1..Len(seq) : seq[i].id = id /\ \A j \in 1..(i - 1) : seq[j].id # id}

\* The step by which a fallback branch at pc, which read the collection read
\* and looks for id in it, ends: it writes under key the collection with the
\* record found changed into changed(record) and the others as they were, or,
\* having found none, it writes nothing; and the handler is through.
fallbackChangesOne(c, pc, key, read, id, changed(_)) ==
  (proc[c].pc = pc /\ proc'[c] # proc[c])
  => /\ IF firstWithId(read, id) = {}
        THEN localStorage'[key] = localStorage[key]
        ELSE localStorage'[key] =
               <<[i \in 1..Len(read) |->
                    IF i \in firstWithId(read, id) THEN changed(read[i]) ELSE read[i]]>>
     /\ proc'[c] = Idle

\* C25: in fallback mode cancelBooking, toggleSeatMaintenance and updateUser
\* with an id no stored record has write nothing and end; with an id a stored
\* record has they write the collection with that record cancelled, toggled or
\* replaced and every other record as it was.
C25_OnlyTheRecordNamed ==
  [][\A c \in Clients :
       LET p == proc[c]
       IN /\ fallbackChangesOne(c, "cancelBooking:fallback", KEYS.BOOKINGS,
                                IF "bookings" \in DOMAIN p THEN p.bookings ELSE << >>,
                                IF "bookingId" \in DOMAIN p THEN p.bookingId ELSE << >>,
                                LAMBDA b : [b EXCEPT !.status = "CANCELLED"])
          /\ fallbackChangesOne(c, "toggleSeatMaintenance:fallback", KEYS.SEATS,
                                IF "seats" \in DOMAIN p THEN p.seats ELSE << >>,
                                IF "seatId" \in DOMAIN p THEN p.seatId ELSE << >>,
                                LAMBDA s : [s EXCEPT !.isMaintenance = ~@])
          /\ fallbackChangesOne(c, "updateUser:fallback", KEYS.USERS,
                                IF "users" \in DOMAIN p THEN p.users ELSE << >>,
                                IF "updatedUser" \in DOMAIN p THEN p.updatedUser.id ELSE << >>,
                                LAMBDA u : p.updatedUser)]_vars

\* C25's case: the student cancelled a booking the backend had shown, the call
\* failed, and the fallback found no booking of that id in the store, which
\* has no bookings still.
C25_Witness ==
  \E c \in Clients :
    /\ last[c].op = "cancelBooking"
    /\ last[c].local
    /\ last[c].before = "none"
    /\ proc[c] = Idle
    /\ localStorage[KEYS.BOOKINGS] = Null

\* C26: an operation reads or writes the collections of localStorage only with
\* the offline flag set: after a step in which a client's operation wrote one
\* of the three collections there, or ended a read with what localStorage
\* holds, that client's isOfflineMode is true.
C26_FallbackOnlyOffline ==
  [][\A c \in Clients :
       (/\ proc'[c] # proc[c]
        /\ othersStill(c)
        /\ \E k \in {KEYS.USERS, KEYS.SEATS, KEYS.BOOKINGS} :
             localStorage'[k] # localStorage[k])
       => isOfflineMode'[c]]_vars

\* C27: of two createBooking calls for the same seat, date and start time that
\* run against localStorage at once, at most one returns true and what a call
\* that returned true wrote stays stored: when the call of d ends, having read
\* the bookings before the call of c (which returned true) wrote its own, the
\* call of d returns false and the booking of c is stored still.
C27_OneOfTwoWins ==
  [][\A c \in Clients : \A d \in Clients \ {c} :
       (/\ proc[d].pc = "createBooking:fallback"
        /\ proc'[d] # proc[d]
        /\ last[c].op = "createBooking"
        /\ last[c].local
        /\ last[c].ret
        /\ last[c].booking.seatId = proc[d].booking.seatId
        /\ sameSlot(last[c].booking, proc[d].booking)
        /\ \A i \in 1..Len(proc[d].bookings) : proc[d].bookings[i] # last[c].booking
        /\ \E i \in 1..Len(storedBookings) : storedBookings[i] = last[c].booking)
       => /\ ~last'[d].ret
          /\ \E i \in 1..Len(getStoredBookingsFallback(localStorage').ret) :
               getStoredBookingsFallback(localStorage').ret[i] = last[c].booking]_vars

\* C28: the user a tab shows a dashboard for, whether signed in on the form or
\* restored from the saved session, is not blocked in the users collection.
C28_NoDashboardForBlocked ==
  \A c \in Clients :
    currentUser[c] # Null
    => \A i \in 1..Len(storedUsers) :
         storedUsers[i].id = currentUser[c][1].id => ~storedUsers[i].isBlocked

\* C29: a booking that a step adds to the stored bookings as ACTIVE is of a
\* seat that the stored seats hold at that moment and that is not under
\* maintenance there.
C29_BookedSeatIsInService ==
  [][\A i \in 1..Len(getStoredBookingsFallback(localStorage').ret) :
       LET b == getStoredBookingsFallback(localStorage').ret[i]
       IN (/\ b.status = "ACTIVE"
           /\ \A k \in 1..Len(storedBookings) : storedBookings[k] # b)
          => \E j \in 1..Len(storedSeats) :
               storedSeats[j].id = b.seatId /\ ~storedSeats[j].isMaintenance]_vars

\* C30: when the student flow calls createBooking, the date of the booking has
\* a slot to offer at that hour and, the date being today, the booking starts
\* at an hour after the present one.
C30_BookedSlotIsAhead ==
  [][\A c \in Clients :
       (/\ proc[c] = Idle
        /\ proc'[c].pc \in {"createBooking:fetch", "createBooking:fallback"})
       => LET booking == proc'[c].booking
          IN /\ getAvailableTimeSlots(booking.date, now) # << >>
             /\ isSameDay(booking.date, now) => booking.startTime > now.hour]_vars
====
